---- MODULE Spec2Model ----
(***************************************************************************)
(* CKD BOM comparison tool: the reconciliation engine of                   *)
(* modules/data_processor.py with the text helpers of modules/utils.py.    *)
(*                                                                         *)
(* Text is a sequence of one-character strings (a few characters that are  *)
(* not ASCII carry a name: "NBSP", "ZWSP", "NUL", "BQ", "hao", ...).       *)
(* A finite float is an integer count of 1/Scale units; nan and the        *)
(* infinities are values of their own.                                     *)
(***************************************************************************)
EXTENDS Integers, Sequences, FiniteSets, TLC

\* ------------------------------------------------------------------
\* Bounds of the model
\* ------------------------------------------------------------------
MaxBom == 2
MaxList == 2
MaxExpr == 4
MaxSegs == 5
MaxGridRows == 3
MaxNumeral == 1000
MaxRows == 3
MaxStreamRows == 4
MaxBoxList == 3
MaxCells == 3
MaxFacts == 2
MaxInteractions == 4
MaxCallers == 2

\* ------------------------------------------------------------------
\* Numbers: fixed point, Scale units per 1.0
\* ------------------------------------------------------------------
Scale == 10000
Tolerance == Scale \div 1000

Abs(n) == IF n < 0 THEN 0 - n ELSE n

\* ------------------------------------------------------------------
\* Characters and text
\* ------------------------------------------------------------------
Digits == <<"0", "1", "2", "3", "4", "5", "6", "7", "8", "9">>

\* Python str.isspace() for the characters of the model
IsSpace(c) == c \in {" ", "TAB", "NBSP"}

\* the character class of the re.sub in clean_part_number:
\* [\x00-\x1f \x7f-\x9f U+200B-U+200D U+FEFF U+00A0]
IsInvisible(c) == c \in {"NUL", "TAB", "ZWSP", "BOM", "NBSP"}

\* code points, for the order of Python's string comparison
CodePoint(c) ==
    CASE c = "NUL" -> 0
      [] c = "TAB" -> 9
      [] c = " " -> 32
      [] c = "'" -> 39
      [] c = "(" -> 40
      [] c = ")" -> 41
      [] c = "+" -> 43
      [] c = "," -> 44
      [] c = "-" -> 45
      [] c = "." -> 46
      [] c = "0" -> 48
      [] c = "1" -> 49
      [] c = "2" -> 50
      [] c = "3" -> 51
      [] c = "4" -> 52
      [] c = "5" -> 53
      [] c = "6" -> 54
      [] c = "7" -> 55
      [] c = "8" -> 56
      [] c = "9" -> 57
      [] c = "BQ" -> 96
      [] c = "NBSP" -> 160
      [] c = "ZWSP" -> 8203
      [] c = "hao" -> 21495
      [] c = "xiang" -> 31665
      [] c = "BOM" -> 65279
      [] OTHER -> 65536

RECURSIVE StrLess(_, _)
StrLess(a, b) ==
    IF b = <<>> THEN FALSE
    ELSE IF a = <<>> THEN TRUE
    ELSE IF CodePoint(Head(a)) # CodePoint(Head(b))
         THEN CodePoint(Head(a)) < CodePoint(Head(b))
    ELSE StrLess(Tail(a), Tail(b))

StartsWith(s, p) == Len(s) >= Len(p) /\ SubSeq(s, 1, Len(p)) = p
EndsWith(s, p) == Len(s) >= Len(p) /\ SubSeq(s, Len(s) - Len(p) + 1, Len(s)) = p

RECURSIVE LStripSpace(_)
LStripSpace(s) ==
    IF s # <<>> /\ IsSpace(Head(s)) THEN LStripSpace(Tail(s)) ELSE s

RECURSIVE RStripSpace(_)
RStripSpace(s) ==
    IF s # <<>> /\ IsSpace(s[Len(s)]) THEN RStripSpace(SubSeq(s, 1, Len(s) - 1)) ELSE s

\* str.strip()
Strip(s) == RStripSpace(LStripSpace(s))

\* str.lstrip(c) for a one-character argument
RECURSIVE LStripChar(_, _)
LStripChar(s, c) ==
    IF s # <<>> /\ Head(s) = c THEN LStripChar(Tail(s), c) ELSE s

\* str.replace(c, '')
RemoveChar(s, c) == SelectSeq(s, LAMBDA x : x # c)

\* str(int) of a natural number
RECURSIVE NatToStr(_)
NatToStr(n) ==
    IF n < 10 THEN <<Digits[n + 1]>>
    ELSE NatToStr(n \div 10) \o <<Digits[(n % 10) + 1]>>

IntToStr(n) == IF n < 0 THEN <<"-">> \o NatToStr(0 - n) ELSE NatToStr(n)

\* int(x) of a float: truncation towards zero, in whole units
TruncInt(v) == IF v < 0 THEN 0 - ((0 - v) \div Scale) ELSE v \div Scale

IsIntegral(v) == v % Scale = 0

\* the digits of a fraction f (0 <= f < Scale) with trailing zeros dropped,
\* at least one digit kept
RECURSIVE FracDigits(_, _)
FracDigits(f, unit) ==
    IF unit = 1 THEN <<>>
    ELSE LET u == unit \div 10
             d == f \div u
             rest == f % u
         IN  IF rest = 0 THEN <<Digits[d + 1]>>
             ELSE <<Digits[d + 1]>> \o FracDigits(rest, u)

\* str(x) of a float
FloatToStr(v) ==
    (IF v < 0 THEN <<"-">> ELSE <<>>)
    \o NatToStr(Abs(v) \div Scale) \o <<".">> \o FracDigits(Abs(v) % Scale, Scale)

\* ------------------------------------------------------------------
\* Raw cell values: None, a string or a float (finite, or nan)
\* ------------------------------------------------------------------
None == [t |-> "none"]
Str(s) == [t |-> "str", v |-> s]
Float(x) == [t |-> "float", v |-> x]
NaN == [t |-> "nan"]

\* str(value)
PyStr(value) ==
    CASE value.t = "none" -> <<"N", "o", "n", "e">>
      [] value.t = "str" -> value.v
      [] value.t = "float" -> FloatToStr(value.v)
      [] value.t = "nan" -> <<"n", "a", "n">>

\* utils.clean_part_number
clean_part_number(value) ==
    IF value.t = "none" THEN <<>>
    ELSE IF value.t = "nan" THEN <<>>
    ELSE
      LET s0 == PyStr(value)
          s1 == IF value.t = "float"
                THEN (IF IsIntegral(value.v) THEN IntToStr(TruncInt(value.v)) ELSE s0)
                ELSE (IF EndsWith(s0, <<".", "0">>) THEN SubSeq(s0, 1, Len(s0) - 2) ELSE s0)
          s2 == Strip(s1)
          s3 == LStripChar(LStripChar(LStripChar(LStripChar(s2, "'"), "'"), "'"), "BQ")
          s4 == RemoveChar(RemoveChar(RemoveChar(s3, "'"), "'"), "'")
          s5 == SelectSeq(s4, LAMBDA c : ~IsInvisible(c))
      IN  Strip(s5)

\* utils.format_number: integers unadorned, otherwise two decimals
format_number(value) ==
    IF IsIntegral(value) THEN IntToStr(TruncInt(value))
    ELSE LET a == Abs(value)
             cents == (a * 100 + (Scale \div 2)) \div Scale
             frac == cents % 100
         IN  (IF value < 0 THEN <<"-">> ELSE <<>>)
             \o NatToStr(cents \div 100) \o <<".">>
             \o <<Digits[(frac \div 10) + 1], Digits[(frac % 10) + 1]>>

\* ------------------------------------------------------------------
\* Python numbers inside eval() and float(): m * 10^e, with m free of
\* trailing zeros; an int is exact, a float is finite, inf or nan
\* ------------------------------------------------------------------
RECURSIVE Pow10(_)
Pow10(n) == IF n <= 0 THEN 1 ELSE 10 * Pow10(n - 1)

RECURSIVE NumDigits(_)
NumDigits(n) == IF n < 10 THEN 1 ELSE 1 + NumDigits(n \div 10)

\* the widest mantissa the model computes with
MaxMantissaDigits == NumDigits(Scale) + 4

\* sys.float_info.max_10_exp and the exponent below which a float is 0.0
FloatMax10Exp == 308
FloatMin10Exp == 0 - 324

\* the widest int that fits an index (sys.maxsize has 19 digits)
IndexDigits == 19

RECURSIVE DecNorm(_, _)
DecNorm(m, e) ==
    IF m = 0 THEN [m |-> 0, e |-> 0]
    ELSE IF m % 10 = 0 THEN DecNorm(m \div 10, e + 1)
    ELSE [m |-> m, e |-> e]

PyInt(m, e) == LET d == DecNorm(m, e) IN [k |-> "int", m |-> d.m, e |-> d.e]
PyInf(neg) == [k |-> "inf", neg |-> neg]
PyNan == [k |-> "nan"]
PyTuple == [k |-> "tuple"]
PyEllipsis == [k |-> "ellipsis"]
PyComplex == [k |-> "complex"]

\* an exception in flight
Exc(name) == [k |-> "exc", name |-> name]

\* a value outside the numbers the model computes with
Unmodelled == [k |-> "unmodelled"]

IsNum(v) == v.k \in {"int", "float"}

\* the decimal exponent of m * 10^e in scientific notation
Order(m, e) == NumDigits(Abs(m)) + e - 1

\* the float m * 10^e: overflow gives inf, underflow 0.0
PyFloat(m, e) ==
    LET d == DecNorm(m, e)
    IN  IF d.m = 0 THEN [k |-> "float", m |-> 0, e |-> 0]
        ELSE IF Order(d.m, d.e) > FloatMax10Exp THEN PyInf(d.m < 0)
        ELSE IF Order(d.m, d.e) < FloatMin10Exp THEN [k |-> "float", m |-> 0, e |-> 0]
        ELSE [k |-> "float", m |-> d.m, e |-> d.e]

\* a number of kind k
PyNumber(k, m, e) == IF k = "int" THEN PyInt(m, e) ELSE PyFloat(m, e)

Min2(a, b) == IF a < b THEN a ELSE b

\* a + b and a - b of two numbers (sign is 1 or -1)
AddNum(k, a, b, sign) ==
    LET lo == Min2(a.e, b.e)
        fits(x) == x.m = 0 \/ NumDigits(Abs(x.m)) + (x.e - lo) < MaxMantissaDigits
    IN  IF a.m = 0 THEN PyNumber(k, sign * b.m, b.e)
        ELSE IF b.m = 0 THEN PyNumber(k, a.m, a.e)
        ELSE IF fits(a) /\ fits(b)
             THEN PyNumber(k, a.m * Pow10(a.e - lo) + sign * b.m * Pow10(b.e - lo), lo)
        ELSE Unmodelled

MulNum(k, a, b) ==
    IF a.m = 0 \/ b.m = 0 THEN PyNumber(k, 0, 0)
    ELSE IF NumDigits(Abs(a.m)) + NumDigits(Abs(b.m)) <= MaxMantissaDigits
         THEN PyNumber(k, a.m * b.m, a.e + b.e)
    ELSE Unmodelled

\* a / b, to the digits of the widest mantissa
DivNum(a, b) ==
    IF b.m = 0 THEN Exc("ZeroDivisionError")
    ELSE IF a.m = 0 THEN PyFloat(0, 0)
    ELSE LET shift == MaxMantissaDigits - 1 - NumDigits(Abs(a.m))
             num == Abs(a.m) * Pow10(shift)
             den == Abs(b.m)
             q == (2 * num + den) \div (2 * den)
             neg == (a.m < 0) # (b.m < 0)
         IN  PyFloat(IF neg THEN 0 - q ELSE q, a.e - b.e - shift)

\* a // b
FloorDivNum(k, a, b) ==
    LET lo == Min2(a.e, b.e)
        fits(x) == x.m = 0 \/ NumDigits(Abs(x.m)) + (x.e - lo) <= MaxMantissaDigits
    IN  IF b.m = 0 THEN Exc("ZeroDivisionError")
        ELSE IF fits(a) /\ fits(b) THEN
            LET x == a.m * Pow10(a.e - lo)
                y == b.m * Pow10(b.e - lo)
                xs == IF y < 0 THEN 0 - x ELSE x
            IN  PyNumber(k, xs \div Abs(y), 0)
        ELSE Unmodelled

RECURSIVE IntPow(_, _)
IntPow(m, n) == IF n = 0 THEN 1 ELSE m * IntPow(m, n - 1)

\* a ** b
PowNum(a, b) ==
    IF b.e < 0 THEN (IF a.m < 0 THEN PyComplex ELSE Unmodelled)
    ELSE IF NumDigits(Abs(b.m)) + b.e > 4 THEN Unmodelled
    ELSE
      LET n == Abs(b.m) * Pow10(b.e)
          bothInt == a.k = "int" /\ b.k = "int"
          fits == Abs(a.m) <= 1 \/ NumDigits(Abs(a.m)) * n <= MaxMantissaDigits
          pm == IF Abs(a.m) > 1 THEN IntPow(a.m, n)
                ELSE IF n = 0 \/ (a.m < 0 /\ n % 2 = 0) THEN 1
                ELSE a.m
          pe == a.e * n
      IN  IF ~fits THEN Unmodelled
          ELSE IF b.m >= 0 THEN
              (IF bothInt THEN PyInt(pm, pe)
               ELSE IF pm # 0 /\ Order(pm, pe) > FloatMax10Exp THEN Exc("OverflowError")
               ELSE PyFloat(pm, pe))
          ELSE IF a.m = 0 THEN Exc("ZeroDivisionError")
          ELSE DivNum(PyInt(1, 0), [k |-> "int", m |-> pm, e |-> pe])

\* a binary operator applied to two values
BinOp(op, a, b) ==
    LET k == IF a.k = "int" /\ b.k = "int" THEN "int" ELSE "float"
    IN  IF a.k = "unmodelled" \/ b.k = "unmodelled" THEN Unmodelled
        ELSE IF op = "*" /\ {a.k, b.k} = {"tuple", "int"} THEN
            LET n == IF a.k = "int" THEN a ELSE b
            IN  IF n.m # 0 /\ Order(n.m, n.e) >= IndexDigits - 1
                THEN Exc("OverflowError") ELSE PyTuple
        ELSE IF op = "+" /\ a.k = "tuple" /\ b.k = "tuple" THEN PyTuple
        ELSE IF a.k \in {"tuple", "ellipsis"} \/ b.k \in {"tuple", "ellipsis"}
             THEN Exc("TypeError")
        ELSE IF a.k \in {"inf", "nan", "complex"} \/ b.k \in {"inf", "nan", "complex"}
             THEN Unmodelled
        ELSE CASE op = "+" -> AddNum(k, a, b, 1)
               [] op = "-" -> AddNum(k, a, b, 0 - 1)
               [] op = "*" -> MulNum(k, a, b)
               [] op = "/" -> DivNum(a, b)
               [] op = "//" -> FloorDivNum(k, a, b)
               [] op = "**" -> PowNum(a, b)

\* a unary + or -
UnaryOp(op, x) ==
    IF x.k \in {"tuple", "ellipsis"} THEN Exc("TypeError")
    ELSE IF x.k \in {"unmodelled", "nan", "complex"} THEN x
    ELSE IF x.k = "inf" THEN (IF op = "-" THEN PyInf(~x.neg) ELSE x)
    ELSE IF op = "-" THEN [k |-> x.k, m |-> 0 - x.m, e |-> x.e]
    ELSE x

\* ------------------------------------------------------------------
\* eval() of an arithmetic expression: tokens, syntax tree, value
\* ------------------------------------------------------------------
DigitSet == {Digits[i] : i \in 1..10}

DigitValue(c) == CHOOSE d \in 0..9 : Digits[d + 1] = c

RECURSIVE StrToNat(_)
StrToNat(s) ==
    IF s = <<>> THEN 0
    ELSE 10 * StrToNat(SubSeq(s, 1, Len(s) - 1)) + DigitValue(s[Len(s)])

\* the length of the longest prefix of s with characters of S only
RECURSIVE SpanLen(_, _)
SpanLen(s, S) == IF s # <<>> /\ Head(s) \in S THEN 1 + SpanLen(Tail(s), S) ELSE 0

Drop(s, n) == SubSeq(s, n + 1, Len(s))

\* the leading digits of s, and what follows them
DigitsPrefix(s) == SubSeq(s, 1, SpanLen(s, DigitSet))
AfterDigits(s) == Drop(s, SpanLen(s, DigitSet))

\* a number literal of the digits int and, for a float, the digits frac
Literal(isFloat, int, frac) ==
    LET digits == int \o frac
        lead == SpanLen(digits, {"0"})
        sig == Drop(digits, lead)
    IN  IF Len(sig) > MaxMantissaDigits THEN Unmodelled
        ELSE IF isFloat THEN PyFloat(StrToNat(sig), 0 - Len(frac))
        ELSE PyInt(StrToNat(sig), 0)

\* the tokens of the text, or a syntax error
RECURSIVE Tokenize(_)

\* tok followed by the tokens more
TokenThen(tok, more) ==
    IF more.ok THEN [ok |-> TRUE, toks |-> <<tok>> \o more.toks] ELSE more

\* a number token: the digits int, then "." and the digits frac when
\* isFloat, then rest
NumberToken(isFloat, int, frac, rest) ==
    IF ~isFloat /\ Head(int) = "0" /\ (\E i \in 1..Len(int) : int[i] # "0")
    THEN [ok |-> FALSE]
    ELSE TokenThen([t |-> "num", v |-> Literal(isFloat, int, frac)], Tokenize(rest))

\* a number token whose integer digits are int; after follows them
NumberAfterInt(int, after) ==
    NumberToken(StartsWith(after, <<".">>),
                int,
                IF StartsWith(after, <<".">>) THEN DigitsPrefix(Tail(after)) ELSE <<>>,
                IF StartsWith(after, <<".">>) THEN AfterDigits(Tail(after)) ELSE after)

Tokenize(s) ==
    IF s = <<>> THEN [ok |-> TRUE, toks |-> <<>>]
    ELSE IF Head(s) \in {" ", "TAB"} THEN Tokenize(Tail(s))
    ELSE IF Head(s) \in DigitSet \/ (Head(s) = "." /\ Len(s) >= 2 /\ s[2] \in DigitSet)
         THEN NumberAfterInt(DigitsPrefix(s), AfterDigits(s))
    ELSE IF StartsWith(s, <<".", ".", ".">>) THEN TokenThen([t |-> "..."], Tokenize(Drop(s, 3)))
    ELSE IF StartsWith(s, <<"*", "*">>) THEN TokenThen([t |-> "**"], Tokenize(Drop(s, 2)))
    ELSE IF StartsWith(s, <<"/", "/">>) THEN TokenThen([t |-> "//"], Tokenize(Drop(s, 2)))
    ELSE IF Head(s) \in {"+", "-", "*", "/", "(", ")"}
         THEN TokenThen([t |-> Head(s)], Tokenize(Tail(s)))
    ELSE [ok |-> FALSE]

Tok(toks, i) == IF i <= Len(toks) THEN toks[i].t ELSE "end"

NoParse == [ok |-> FALSE]
Parsed(ast, i) == [ok |-> TRUE, ast |-> ast, i |-> i]

RECURSIVE ParseExpr(_, _)
RECURSIVE ParseExprRest(_, _, _)
RECURSIVE ParseTermRest(_, _, _)
RECURSIVE ParseFactor(_, _)
RECURSIVE ParseTrailers(_, _, _)

\* the ")" that closes the parenthesised expression e
CloseParen(toks, e) ==
    IF e.ok /\ Tok(toks, e.i) = ")" THEN Parsed(e.ast, e.i + 1) ELSE NoParse

\* atom: a number, ..., () or a parenthesised expression
ParseAtom(toks, i) ==
    CASE Tok(toks, i) = "num" -> Parsed([n |-> "num", v |-> toks[i].v], i + 1)
      [] Tok(toks, i) = "..." -> Parsed([n |-> "ellipsis"], i + 1)
      [] Tok(toks, i) = "(" ->
            IF Tok(toks, i + 1) = ")" THEN Parsed([n |-> "tuple"], i + 2)
            ELSE CloseParen(toks, ParseExpr(toks, i + 1))
      [] OTHER -> NoParse

\* the call f(a), a parsed, and the trailers after it
TrailerArg(f, toks, a) ==
    IF a.ok /\ Tok(toks, a.i) = ")"
    THEN ParseTrailers([n |-> "call", f |-> f, args |-> <<a.ast>>], toks, a.i + 1)
    ELSE NoParse

\* primary: an atom followed by calls f(), f(x), f(*x), f(**x)
ParseTrailers(f, toks, i) ==
    IF Tok(toks, i) # "(" THEN Parsed(f, i)
    ELSE IF Tok(toks, i + 1) = ")"
         THEN ParseTrailers([n |-> "call", f |-> f, args |-> <<>>], toks, i + 2)
    ELSE TrailerArg(f, toks,
                    ParseExpr(toks, IF Tok(toks, i + 1) \in {"*", "**"} THEN i + 2 ELSE i + 1))

ParsePrimary(toks, a) == IF a.ok THEN ParseTrailers(a.ast, toks, a.i) ELSE NoParse

\* p ** f, f parsed
PowerOf(p, f) ==
    IF f.ok THEN Parsed([n |-> "bin", op |-> "**", l |-> p.ast, r |-> f.ast], f.i)
    ELSE NoParse

\* power: primary ["**" factor], the primary p parsed
PowerAfter(toks, p) ==
    IF ~p.ok THEN NoParse
    ELSE IF Tok(toks, p.i) # "**" THEN p
    ELSE PowerOf(p, ParseFactor(toks, p.i + 1))

ParsePower(toks, i) == PowerAfter(toks, ParsePrimary(toks, ParseAtom(toks, i)))

\* op f, f parsed
UnaryOf(op, f) ==
    IF f.ok THEN Parsed([n |-> "un", op |-> op, x |-> f.ast], f.i) ELSE NoParse

\* factor: ("+" | "-") factor | power
ParseFactor(toks, i) ==
    IF Tok(toks, i) \in {"+", "-"} THEN UnaryOf(Tok(toks, i), ParseFactor(toks, i + 1))
    ELSE ParsePower(toks, i)

\* left op f, f parsed, and the rest of the term
TermOf(left, op, toks, f) ==
    IF f.ok THEN ParseTermRest([n |-> "bin", op |-> op, l |-> left, r |-> f.ast], toks, f.i)
    ELSE NoParse

\* term: factor (("*" | "/" | "//") factor)*
ParseTermRest(left, toks, i) ==
    IF Tok(toks, i) \notin {"*", "/", "//"} THEN Parsed(left, i)
    ELSE TermOf(left, Tok(toks, i), toks, ParseFactor(toks, i + 1))

TermAfter(toks, f) == IF f.ok THEN ParseTermRest(f.ast, toks, f.i) ELSE NoParse

ParseTerm(toks, i) == TermAfter(toks, ParseFactor(toks, i))

\* left op t, t parsed, and the rest of the expression
ExprOf(left, op, toks, t) ==
    IF t.ok THEN ParseExprRest([n |-> "bin", op |-> op, l |-> left, r |-> t.ast], toks, t.i)
    ELSE NoParse

\* expression: term (("+" | "-") term)*
ParseExprRest(left, toks, i) ==
    IF Tok(toks, i) \notin {"+", "-"} THEN Parsed(left, i)
    ELSE ExprOf(left, Tok(toks, i), toks, ParseTerm(toks, i + 1))

ExprAfter(toks, t) == IF t.ok THEN ParseExprRest(t.ast, toks, t.i) ELSE NoParse

ParseExpr(toks, i) == ExprAfter(toks, ParseTerm(toks, i))

\* op x, x evaluated
UnaryResult(op, x) == IF x.k = "exc" THEN x ELSE UnaryOp(op, x)

\* l op r, operands evaluated left to right
BinResult(op, l, r) ==
    IF l.k = "exc" THEN l ELSE IF r.k = "exc" THEN r ELSE BinOp(op, l, r)

\* f(a): calling a number, a tuple or ... is a TypeError
CallResult(f, a) ==
    IF f.k = "exc" THEN f ELSE IF a.k = "exc" THEN a ELSE Exc("TypeError")

\* the value of a syntax tree
RECURSIVE EvalTree(_)
EvalTree(ast) ==
    CASE ast.n = "num" -> ast.v
      [] ast.n = "ellipsis" -> PyEllipsis
      [] ast.n = "tuple" -> PyTuple
      [] ast.n = "un" -> UnaryResult(ast.op, EvalTree(ast.x))
      [] ast.n = "bin" -> BinResult(ast.op, EvalTree(ast.l), EvalTree(ast.r))
      [] ast.n = "call" ->
            CallResult(EvalTree(ast.f),
                       IF ast.args = <<>> THEN PyTuple ELSE EvalTree(ast.args[1]))

\* the value of the tokens parsed to p
EvalParsed(toks, p) ==
    IF p.ok /\ p.i = Len(toks) + 1 THEN EvalTree(p.ast) ELSE Exc("SyntaxError")

\* the value of the tokens lex
EvalTokens(lex) ==
    IF lex.ok /\ lex.toks # <<>> THEN EvalParsed(lex.toks, ParseExpr(lex.toks, 1))
    ELSE Exc("SyntaxError")

\* eval(text, {"__builtins__": {}}, {})
PyEval(text) == EvalTokens(Tokenize(text))

\* ------------------------------------------------------------------
\* utils.safe_eval_expression
\* ------------------------------------------------------------------
UpperLetters == <<"A", "B", "C", "D", "E", "F", "G", "H", "I", "J", "K", "L", "M",
                  "N", "O", "P", "Q", "R", "S", "T", "U", "V", "W", "X", "Y", "Z">>
LowerLetters == <<"a", "b", "c", "d", "e", "f", "g", "h", "i", "j", "k", "l", "m",
                  "n", "o", "p", "q", "r", "s", "t", "u", "v", "w", "x", "y", "z">>

IsLetter(c) == \E i \in 1..26 : c = UpperLetters[i] \/ c = LowerLetters[i]

LowerChar(c) ==
    IF \E i \in 1..26 : UpperLetters[i] = c
    THEN LowerLetters[CHOOSE i \in 1..26 : UpperLetters[i] = c]
    ELSE c

\* str.lower()
Lower(s) == [i \in 1..Len(s) |-> LowerChar(s[i])]

\* results that are not a fixed-point float: infinities, a finite float
\* too large or too fine for 1/Scale units, an exception that escapes
Inf(neg) == [t |-> "inf", neg |-> neg]
WideFloat(neg, order) == [t |-> "widefloat", neg |-> neg, order |-> order]
Raise(name) == [t |-> "raise", exc |-> name]
UnmodelledResult == [t |-> "unmodelled"]

ScaleDigits == NumDigits(Scale) - 1

\* a float of eval() or float() as a cell-level float
AsFloat(v) ==
    CASE v.k = "float" ->
            IF v.m = 0 THEN Float(0)
            ELSE IF v.e + ScaleDigits >= 0 /\ Order(v.m, v.e) + ScaleDigits < MaxMantissaDigits
                 THEN Float(v.m * Pow10(v.e + ScaleDigits))
            ELSE WideFloat(v.m < 0, Order(v.m, v.e))
      [] v.k = "inf" -> Inf(v.neg)
      [] v.k = "nan" -> NaN
      [] v.k = "unmodelled" -> UnmodelledResult

\* underscores only between two digits
UnderscoresOk(body) ==
    \A i \in 1..Len(body) :
        body[i] = "_" => /\ i > 1 /\ i < Len(body)
                         /\ body[i - 1] \in DigitSet /\ body[i + 1] \in DigitSet

\* float(text), the digits read: sign, integer digits, fraction digits,
\* exponent sign and digits, and what is left of the text
FloatOfParts(neg, int, frac, hasExp, expNeg, expDigits, rest) ==
    IF Len(int) + Len(frac) < 1 \/ (hasExp /\ expDigits = <<>>) \/ rest # <<>>
    THEN [ok |-> FALSE]
    ELSE IF Len(Drop(int \o frac, SpanLen(int \o frac, {"0"}))) > MaxMantissaDigits
            \/ Len(expDigits) > 4
    THEN [ok |-> TRUE, val |-> Unmodelled]
    ELSE [ok |-> TRUE,
          val |-> PyFloat((IF neg THEN 0 - 1 ELSE 1)
                            * StrToNat(Drop(int \o frac, SpanLen(int \o frac, {"0"}))),
                          (IF expNeg THEN 0 - 1 ELSE 1) * StrToNat(expDigits) - Len(frac))]

\* float(text) from the exponent sign on; a4 follows the "e"
FloatExponent(neg, int, frac, hasExp, a4) ==
    FloatOfParts(neg, int, frac, hasExp,
                 hasExp /\ a4 # <<>> /\ Head(a4) = "-",
                 IF hasExp
                 THEN DigitsPrefix(IF a4 # <<>> /\ Head(a4) \in {"+", "-"} THEN Tail(a4) ELSE a4)
                 ELSE <<>>,
                 IF hasExp
                 THEN AfterDigits(IF a4 # <<>> /\ Head(a4) \in {"+", "-"} THEN Tail(a4) ELSE a4)
                 ELSE a4)

\* float(text) from the fraction on; a2 follows the point, if there is one
FloatFraction(neg, int, point, a2) ==
    FloatExponent(neg, int,
                  IF point THEN DigitsPrefix(a2) ELSE <<>>,
                  IF point THEN StartsWith(AfterDigits(a2), <<"e">>) ELSE StartsWith(a2, <<"e">>),
                  IF point
                  THEN (IF StartsWith(AfterDigits(a2), <<"e">>)
                        THEN Tail(AfterDigits(a2)) ELSE AfterDigits(a2))
                  ELSE (IF StartsWith(a2, <<"e">>) THEN Tail(a2) ELSE a2))

\* float(text) of the lowercased text u without sign and underscores
FloatDigits(neg, u) ==
    FloatFraction(neg, DigitsPrefix(u),
                  StartsWith(AfterDigits(u), <<".">>),
                  IF StartsWith(AfterDigits(u), <<".">>)
                  THEN Tail(AfterDigits(u)) ELSE AfterDigits(u))

\* float(text) of the text without its sign
FloatUnsigned(neg, body) ==
    IF Lower(body) \in {<<"i", "n", "f">>, <<"i", "n", "f", "i", "n", "i", "t", "y">>}
    THEN [ok |-> TRUE, val |-> PyInf(neg)]
    ELSE IF Lower(body) = <<"n", "a", "n">> THEN [ok |-> TRUE, val |-> PyNan]
    ELSE IF ~UnderscoresOk(body) THEN [ok |-> FALSE]
    ELSE FloatDigits(neg, RemoveChar(Lower(body), "_"))

\* float(text) of the stripped text
FloatStripped(s) ==
    FloatUnsigned(s # <<>> /\ Head(s) = "-",
                  IF s # <<>> /\ Head(s) \in {"+", "-"} THEN Tail(s) ELSE s)

\* float(text) of a string: [ok, val]
PyFloatOfStr(text) == FloatStripped(Strip(text))

\* float(result) of the value eval() returned
FloatOfValue(v) ==
    CASE v.k = "int" ->
            IF v.m # 0 /\ Order(v.m, v.e) > FloatMax10Exp THEN Exc("OverflowError")
            ELSE PyFloat(v.m, v.e)
      [] v.k \in {"float", "inf", "nan", "exc", "unmodelled"} -> v
      [] OTHER -> Exc("TypeError")

\* the character class [\d\s\+\-\*\/\.\(\)]
IsAllowed(c) ==
    c \in DigitSet \/ IsSpace(c) \/ c \in {"+", "-", "*", "/", ".", "(", ")"}

\* the exceptions the except clause names
CaughtErrors ==
    {"SyntaxError", "NameError", "TypeError", "ZeroDivisionError", "ValueError"}

\* lines 179-184: the value of eval() turned into the return value
EvalResult(result) ==
    IF result.k = "exc"
    THEN (IF result.name \in CaughtErrors THEN None ELSE Raise(result.name))
    ELSE AsFloat(result)

\* lines 167-184: float() of the text or, when that fails, the value
\* of the expression
FloatOrEval(expr_str, direct) ==
    IF direct.ok THEN AsFloat(direct.val)
    ELSE IF \E i \in 1..Len(expr_str) : ~IsAllowed(expr_str[i]) THEN None
    ELSE EvalResult(FloatOfValue(PyEval(expr_str)))

\* lines 158-184: the text of the argument, stripped
EvalText(expr_str) ==
    IF expr_str = <<>>
       \/ Lower(expr_str) \in {<<"n", "a", "n">>, <<"n", "o", "n", "e">>, <<"-">>}
    THEN None
    ELSE FloatOrEval(expr_str, PyFloatOfStr(expr_str))

safe_eval_expression(expression) ==
    IF expression.t = "none" THEN None
    ELSE IF expression.t = "nan" THEN None
    ELSE IF expression.t = "float" THEN expression
    ELSE EvalText(LStripChar(LStripChar(LStripChar(Strip(PyStr(expression)), "'"), "'"), "'"))

\* ------------------------------------------------------------------
\* Sequence helpers
\* ------------------------------------------------------------------
Indices(n) == [i \in 1..n |-> i]

Range(q) == {q[i] : i \in 1..Len(q)}

\* sep.join(parts)
RECURSIVE Join(_, _)
Join(parts, sep) ==
    IF parts = <<>> THEN <<>>
    ELSE IF Len(parts) = 1 THEN Head(parts)
    ELSE Head(parts) \o sep \o Join(Tail(parts), sep)

\* the first occurrence of every element, in order (dict insertion order)
RECURSIVE FirstSeen(_)
FirstSeen(q) ==
    IF q = <<>> THEN <<>>
    ELSE LET init == FirstSeen(SubSeq(q, 1, Len(q) - 1))
             x == q[Len(q)]
         IN  IF x \in Range(init) THEN init ELSE Append(init, x)

\* sorted(S, reverse=True)
RECURSIVE SortedSeqDescending(_)
SortedSeqDescending(S) ==
    IF S = {} THEN <<>>
    ELSE LET m == CHOOSE x \in S : \A y \in S \ {x} : StrLess(y, x)
         IN  <<m>> \o SortedSeqDescending(S \ {m})

\* sorted(S) for a set of strings
RECURSIVE SortedSeq(_)
SortedSeq(S) ==
    IF S = {} THEN <<>>
    ELSE LET m == CHOOSE x \in S : \A y \in S \ {x} : StrLess(x, y)
         IN  <<m>> \o SortedSeq(S \ {m})

\* list(S) and iteration over a set of strings: the order follows the
\* string hashes of the process, so every order is possible
RECURSIVE ListOfSet(_)
ListOfSet(S) ==
    IF S = {} THEN {<<>>}
    ELSE UNION {{<<x>> \o p : p \in ListOfSet(S \ {x})} : x \in S}

\* ------------------------------------------------------------------
\* utils.extract_substitute_ids
\* ------------------------------------------------------------------
\* re.findall(r'\d+', text): the maximal runs of digits, left to right
RECURSIVE DigitRuns(_)
DigitRuns(s) ==
    IF s = <<>> THEN <<>>
    ELSE IF Head(s) \in DigitSet
         THEN LET n == SpanLen(s, DigitSet)
              IN  <<SubSeq(s, 1, n)>> \o DigitRuns(Drop(s, n))
    ELSE DigitRuns(Tail(s))

\* the texts that stand for "no value" in the substitute column
SubstituteNullTokens ==
    {<<"n", "a", "n">>, <<"n", "o", "n", "e">>, <<"wu">>, <<"-">>, <<>>,
     <<"n", "u", "l", "l">>}

\* the shortest run of digits that counts as a part id
MinIdLen == 3

\* extract_substitute_ids accepting runs of two digits as well
extract_substitute_ids_short(substitute_text) ==
    IF substitute_text.t = "none" THEN <<>>
    ELSE LET text == Strip(PyStr(substitute_text))
         IN  IF text = <<>> \/ Lower(text) \in SubstituteNullTokens THEN <<>>
             ELSE FirstSeen(SelectSeq(DigitRuns(text), LAMBDA m : Len(m) >= MinIdLen - 1))

extract_substitute_ids(substitute_text) ==
    IF substitute_text.t = "none" THEN <<>>
    ELSE LET text == Strip(PyStr(substitute_text))
         IN  IF text = <<>> \/ Lower(text) \in SubstituteNullTokens THEN <<>>
             ELSE FirstSeen(SelectSeq(DigitRuns(text), LAMBDA m : Len(m) >= MinIdLen))

\* ------------------------------------------------------------------
\* config.CHINESE_NUM_MAP, utils.chinese_to_arabic
\* ------------------------------------------------------------------
\* the numerals c0..c9, c10, c100, c1000 and their financial forms f1..f10
CHINESE_NUM_MAP ==
    ("c0" :> 0) @@ ("c1" :> 1) @@ ("c2" :> 2) @@ ("c3" :> 3) @@ ("c4" :> 4)
    @@ ("c5" :> 5) @@ ("c6" :> 6) @@ ("c7" :> 7) @@ ("c8" :> 8) @@ ("c9" :> 9)
    @@ ("c10" :> 10) @@ ("c100" :> 100) @@ ("c1000" :> 1000)
    @@ ("f1" :> 1) @@ ("f2" :> 2) @@ ("f3" :> 3) @@ ("f4" :> 4) @@ ("f5" :> 5)
    @@ ("f6" :> 6) @@ ("f7" :> 7) @@ ("f8" :> 8) @@ ("f9" :> 9) @@ ("f10" :> 10)

\* an int result
IntValue(n) == [t |-> "int", v |-> n]

\* the loop of lines 330-346: [ok, result, temp] after the characters of s
RECURSIVE Accumulate(_, _, _)
Accumulate(s, result, temp) ==
    IF s = <<>> THEN [ok |-> TRUE, result |-> result, temp |-> temp]
    ELSE IF Head(s) \notin DOMAIN CHINESE_NUM_MAP THEN [ok |-> FALSE]
    ELSE LET num == CHINESE_NUM_MAP[Head(s)]
         IN  IF num = 10 \/ num = 100
             THEN Accumulate(Tail(s), result + (IF temp = 0 THEN 1 ELSE temp) * num, 0)
             ELSE Accumulate(Tail(s), result, num)

chinese_to_arabic(chinese_str) ==
    IF chinese_str = <<>> THEN None
    ELSE
      LET s == Strip(chinese_str)
          rest == Tail(s)
          acc == Accumulate(s, 0, 0)
      IN  IF Len(s) = 1 /\ s[1] \in DOMAIN CHINESE_NUM_MAP THEN IntValue(CHINESE_NUM_MAP[s[1]])
          ELSE IF StartsWith(s, <<"c10">>) /\ Len(s) = 1 THEN IntValue(10)
          ELSE IF StartsWith(s, <<"c10">>) /\ Len(rest) = 1 /\ rest[1] \in DOMAIN CHINESE_NUM_MAP
               THEN IntValue(10 + CHINESE_NUM_MAP[rest[1]])
          ELSE IF ~acc.ok THEN None
          ELSE IF acc.result + acc.temp > 0 THEN IntValue(acc.result + acc.temp)
          ELSE None

\* ------------------------------------------------------------------
\* config.BOX_MARKER_PATTERNS, utils.extract_box_number_from_text
\* ------------------------------------------------------------------
\* the character class of the second pattern and of line 377
ChineseClass == {"c1", "c2", "c3", "c4", "c5", "c6", "c7", "c8", "c9", "c10", "c100"}

SpaceSet == {" ", "TAB", "NBSP"}

\* the patterns in order: di? \s* (class+) \s* hao? \s* xiang, and
\* [Ww]ord \s* [#NO]? \s* (\d+)
BOX_MARKER_PATTERNS ==
    <<[kind |-> "xiang", class |-> DigitSet],
      [kind |-> "xiang", class |-> ChineseClass],
      [kind |-> "word", first |-> {"B", "b"}, rest |-> <<"o", "x">>],
      [kind |-> "word", first |-> {"C", "c"}, rest |-> <<"a", "r", "t", "o", "n">>]>>

\* the position after the longest run of characters of S that starts at i
SkipAt(s, i, S) == i + SpanLen(Drop(s, i - 1), S)

CharAt(s, i) == IF i >= 1 /\ i <= Len(s) THEN s[i] ELSE "end"

\* the pattern matched at position i of s: [ok, group]
MatchAt(pattern, s, i) ==
    IF pattern.kind = "xiang" THEN
        LET j1 == IF CharAt(s, i) = "di" THEN i + 1 ELSE i
            j2 == SkipAt(s, j1, SpaceSet)
            j3 == SkipAt(s, j2, pattern.class)
            j4 == SkipAt(s, j3, SpaceSet)
            j5 == IF CharAt(s, j4) = "hao" THEN j4 + 1 ELSE j4
            j6 == SkipAt(s, j5, SpaceSet)
        IN  IF j3 > j2 /\ CharAt(s, j6) = "xiang"
            THEN [ok |-> TRUE, group |-> SubSeq(s, j2, j3 - 1)]
            ELSE [ok |-> FALSE]
    ELSE
        LET j1 == i + 1 + Len(pattern.rest)
            j2 == SkipAt(s, j1, SpaceSet)
            j3 == IF CharAt(s, j2) \in {"#", "NO"} THEN j2 + 1 ELSE j2
            j4 == SkipAt(s, j3, SpaceSet)
            j5 == SkipAt(s, j4, DigitSet)
        IN  IF /\ CharAt(s, i) \in pattern.first
               /\ j1 - 1 <= Len(s)
               /\ SubSeq(s, i + 1, j1 - 1) = pattern.rest
               /\ j5 > j4
            THEN [ok |-> TRUE, group |-> SubSeq(s, j4, j5 - 1)]
            ELSE [ok |-> FALSE]

\* re.search(pattern, s): the match at the leftmost position that has one
Search(pattern, s) ==
    LET hits == {i \in 1..Len(s) : MatchAt(pattern, s, i).ok}
    IN  IF hits = {} THEN [ok |-> FALSE]
        ELSE MatchAt(pattern, s, CHOOSE i \in hits : \A j \in hits : i <= j)

LabelSuffix == <<"hao", "xiang">>

\* the loop of lines 371-382 over the patterns left
RECURSIVE TryPatterns(_, _)
TryPatterns(text, patterns) ==
    IF patterns = <<>> THEN None
    ELSE LET match == Search(Head(patterns), text)
         IN  IF ~match.ok THEN TryPatterns(text, Tail(patterns))
             ELSE IF \A i \in 1..Len(match.group) : match.group[i] \in ChineseClass
             THEN LET arabic_num == chinese_to_arabic(match.group)
                  IN  IF arabic_num.t = "int" /\ arabic_num.v # 0
                      THEN Str(NatToStr(arabic_num.v) \o LabelSuffix)
                      ELSE TryPatterns(text, Tail(patterns))
             ELSE Str(match.group \o LabelSuffix)

extract_box_number_from_text(text, patterns) ==
    IF text = <<>> THEN None ELSE TryPatterns(Strip(text), patterns)

\* ------------------------------------------------------------------
\* utils.normalize_box_number, utils.is_empty_row
\* ------------------------------------------------------------------
\* the character class of the re.sub in normalize_box_number:
\* [\x00-\x1f \x7f-\x9f U+200B-U+200D U+FEFF]
IsInvisibleBox(c) == c \in {"NUL", "TAB", "ZWSP", "BOM"}

normalize_box_number(box_value) ==
    IF box_value.t = "none" THEN <<>>
    ELSE IF box_value.t = "nan" THEN <<>>
    ELSE
      LET s0 == Strip(PyStr(box_value))
          s1 == IF box_value.t = "float"
                THEN (IF IsIntegral(box_value.v) THEN IntToStr(TruncInt(box_value.v)) ELSE s0)
                ELSE (IF EndsWith(s0, <<".", "0">>) THEN SubSeq(s0, 1, Len(s0) - 2) ELSE s0)
      IN  Strip(SelectSeq(s1, LAMBDA c : ~IsInvisibleBox(c)))

\* the texts is_empty_row takes for "no value"
EmptyCellTokens == {<<"n", "a", "n">>, <<"n", "o", "n", "e">>, <<>>}

is_empty_row(row) ==
    \A i \in 1..Len(row) :
        row[i].t = "none" \/ Lower(Strip(PyStr(row[i]))) \in EmptyCellTokens

\* ------------------------------------------------------------------
\* utils.calculate_header_score, utils.smart_find_header_row
\* ------------------------------------------------------------------
\* bool(cell)
Truthy(cell) ==
    CASE cell.t = "none" -> FALSE
      [] cell.t = "str" -> cell.v # <<>>
      [] cell.t = "float" -> cell.v # 0
      [] cell.t = "nan" -> TRUE

\* sub in text
Contains(text, sub) ==
    \E i \in 1..(Len(text) - Len(sub) + 1) : SubSeq(text, i, i + Len(sub) - 1) = sub

\* ' '.join(str(cell) if cell else '' for cell in row)
RowText(row) ==
    Join([i \in 1..Len(row) |-> IF Truthy(row[i]) THEN PyStr(row[i]) ELSE <<>>], <<" ">>)

\* the loop of lines 211-215: score and matched_keywords after the keywords
RECURSIVE ScoreKeywords(_, _, _, _)
ScoreKeywords(keywords, text, score, matched_keywords) ==
    IF keywords = <<>> THEN score
    ELSE LET kw_lower == Lower(Head(keywords))
         IN  IF Contains(text, kw_lower) /\ kw_lower \notin matched_keywords
             THEN ScoreKeywords(Tail(keywords), text, score + 1,
                                matched_keywords \cup {kw_lower})
             ELSE ScoreKeywords(Tail(keywords), text, score, matched_keywords)

calculate_header_score(row, keywords) ==
    IF row = <<>> THEN 0 ELSE ScoreKeywords(keywords, Lower(RowText(row)), 0, {})

\* line 252: the cells that are not None and not blank
NonEmptyCells(row) ==
    Cardinality({i \in 1..Len(row) : row[i].t # "none" /\ Strip(PyStr(row[i])) # <<>>})

\* the loop keeping the later row on a tie
RECURSIVE ScanRowsLast(_, _, _, _, _)
ScanRowsLast(data, keywords, search_rows, row_idx, best) ==
    IF row_idx >= search_rows THEN best
    ELSE LET row == data[row_idx + 1]
             score == calculate_header_score(row, keywords)
         IN  IF row = <<>> \/ NonEmptyCells(row) < 2 \/ score < best.score \/ score = 0
             THEN ScanRowsLast(data, keywords, search_rows, row_idx + 1, best)
             ELSE ScanRowsLast(data, keywords, search_rows, row_idx + 1,
                               [found |-> TRUE, row |-> row_idx, score |-> score])

\* the loop of lines 246-260 from row_idx (0-based) on; best is
\* [found, row, score]
RECURSIVE ScanRows(_, _, _, _, _)
ScanRows(data, keywords, search_rows, row_idx, best) ==
    IF row_idx >= search_rows THEN best
    ELSE LET row == data[row_idx + 1]
             score == calculate_header_score(row, keywords)
         IN  IF row = <<>> \/ NonEmptyCells(row) < 2 \/ score <= best.score
             THEN ScanRows(data, keywords, search_rows, row_idx + 1, best)
             ELSE ScanRows(data, keywords, search_rows, row_idx + 1,
                           [found |-> TRUE, row |-> row_idx, score |-> score])

NotFound == [found |-> FALSE, score |-> 0]

smart_find_header_row(data, keywords, max_rows, min_score) ==
    IF data = <<>> \/ keywords = <<>> THEN NotFound
    ELSE LET search_rows == Min2(Len(data), max_rows)
             best == ScanRows(data, keywords, search_rows, 0, NotFound)
         IN  IF best.score >= min_score THEN best ELSE NotFound

\* ------------------------------------------------------------------
\* config.JudgmentStatus
\* ------------------------------------------------------------------
OK == <<"O", "K">>
OK_WITH_SUB == <<"O", "K", " ", "(", "han", "ti", "liao", ")">>
NG_QTY_DIFF == <<"N", "G", " ", "(", "shu", "liang", "cha", "yi", ")">>
NG_MISSING == <<"N", "G", " ", "(", "que", "liao", ")">>
NG_NOT_IN_BOM == <<"N", "G", " ", "(", "B", "O", "M", "wu", ")">>

\* is_ng by equality with "NG"
is_ng_exact(r) == r.status = <<"N", "G">>

\* CompareResult.is_pass, CompareResult.is_ng
is_pass(r) == StartsWith(r.status, <<"O", "K">>)
is_ng(r) == StartsWith(r.status, <<"N", "G">>)

\* the fixed texts of the remarks and warnings, one token per phrase
TxtNotFound == <<"[not found in list, substitutes included]">>
TxtSubUsed == <<"[substitute used]", ":", " ">>
TxtExcess == <<"[excess]", " ", "+">>
TxtShortfall == <<"[shortfall]", " ">>
TxtWithSub == <<"[with substitute]", ":", " ">>
TxtNotInBom == <<"[possible engineering change or mix-up, please verify]">>

\* the default of the work_order parameter
DefaultWorkOrder == <<>>

\* ------------------------------------------------------------------
\* Part ids of the inputs
\* ------------------------------------------------------------------
P1001 == <<"1", "0", "0", "1">>
P2002 == <<"2", "0", "0", "2">>
P3003 == <<"3", "0", "0", "3">>

\* part-id cells as the sheets hold them; the parsers store
\* clean_part_number(cell) when it is not empty
RawBomIds == {P1001, <<"'">> \o P2002}
RawListIds == {P1001, P2002, P3003, <<".", "0", " ">>}

BomMainIds == {clean_part_number(Str(r)) : r \in RawBomIds} \ {<<>>}
ListIds == {clean_part_number(Str(r)) : r \in RawListIds} \ {<<>>}

\* clean_part_number applied to a stored part id (a string)
CleanStored(s) == clean_part_number(Str(s))

\* ------------------------------------------------------------------
\* data_processor: lookup, forward match, reverse pass
\* ------------------------------------------------------------------
\* the key a checklist record is filed under
ListKey(item) == CleanStored(item.part_id)

\* build_part_lookup: key -> the records (by position) with that key
build_part_lookup(items) ==
    LET keys == {ListKey(items[i]) : i \in 1..Len(items)} \ {<<>>}
    IN  [k \in keys |->
            SelectSeq(Indices(Len(items)), LAMBDA i : ListKey(items[i]) = k)]

RECURSIVE SumQuantity(_, _)
SumQuantity(items, idx) ==
    IF idx = <<>> THEN 0
    ELSE items[Head(idx)].quantity + SumQuantity(items, Tail(idx))

\* [i.box_number for i in matched if i.box_number]
BoxesOf(items, idx) ==
    LET nonempty == SelectSeq(idx, LAMBDA i : items[i].box_number # <<>>)
    IN  [k \in 1..Len(nonempty) |-> items[nonempty[k]].box_number]

\* match_bom_item, lines 77-82: main id and cleaned substitutes
MainPart(b) == CleanStored(b.main_part_id)

Substitutes(b) ==
    LET given == SelectSeq(b.substitute_ids, LAMBDA s : s # <<>>)
        cleaned == [i \in 1..Len(given) |-> CleanStored(given[i])]
    IN  SelectSeq(cleaned, LAMBDA s : s # <<>> /\ s # MainPart(b))

AllParts(b) == <<MainPart(b)>> \o Substitutes(b)

\* match_bom_item, lines 88-93: the records collected for the ids in turn
RECURSIVE MatchedItems(_, _)
MatchedItems(parts, part_lookup) ==
    IF parts = <<>> THEN <<>>
    ELSE (IF Head(parts) \in DOMAIN part_lookup THEN part_lookup[Head(parts)] ELSE <<>>)
         \o MatchedItems(Tail(parts), part_lookup)

MatchedListIds(b, part_lookup) == Range(AllParts(b)) \cap DOMAIN part_lookup

MatchedSubIds(b, part_lookup) == MatchedListIds(b, part_lookup) \ {MainPart(b)}

\* Classify without the substitute rule
ClassifyNoSubstituteRule(matched_items, matched_sub_ids, diff) ==
    IF matched_items = <<>> THEN
        [status |-> NG_MISSING, remarks |-> <<TxtNotFound>>]
    ELSE IF Abs(diff) < Tolerance THEN [status |-> OK, remarks |-> <<>>]
    ELSE
        [status |-> NG_QTY_DIFF,
         remarks |-> <<(IF diff > 0 THEN TxtExcess ELSE TxtShortfall) \o format_number(diff)>>]

\* Classify with abs(diff) <= 0.001
ClassifyInclusive(matched_items, matched_sub_ids, diff) ==
    IF matched_items = <<>> THEN
        [status |-> NG_MISSING, remarks |-> <<TxtNotFound>>]
    ELSE IF Abs(diff) <= Tolerance THEN
        (IF matched_sub_ids # {} THEN
            [status |-> OK_WITH_SUB,
             remarks |-> <<TxtSubUsed \o Join(SortedSeq(matched_sub_ids), <<",", " ">>)>>]
         ELSE [status |-> OK, remarks |-> <<>>])
    ELSE
        [status |-> NG_QTY_DIFF,
         remarks |-> <<(IF diff > 0 THEN TxtExcess ELSE TxtShortfall) \o format_number(diff)>>]

\* match_bom_item, lines 99-114: status and remarks
Classify(matched_items, matched_sub_ids, diff) ==
    IF matched_items = <<>> THEN
        [status |-> NG_MISSING, remarks |-> <<TxtNotFound>>]
    ELSE IF Abs(diff) < Tolerance THEN
        (IF matched_sub_ids # {} THEN
            [status |-> OK_WITH_SUB,
             remarks |-> <<TxtSubUsed \o Join(SortedSeq(matched_sub_ids), <<",", " ">>)>>]
         ELSE [status |-> OK, remarks |-> <<>>])
    ELSE
        [status |-> NG_QTY_DIFF,
         remarks |-> <<(IF diff > 0 THEN TxtExcess ELSE TxtShortfall) \o format_number(diff)>>
                     \o (IF matched_sub_ids # {}
                         THEN <<TxtWithSub \o Join(SortedSeq(matched_sub_ids), <<",", " ">>)>>
                         ELSE <<>>)]

\* match_bom_item; sub_list is the order list(matched_sub_ids) came out in
match_bom_item(items, bom_item, part_lookup, work_order, sub_list) ==
    LET matched_items == MatchedItems(AllParts(bom_item), part_lookup)
        matched_sub_ids == MatchedSubIds(bom_item, part_lookup)
        actual == SumQuantity(items, matched_items)
        diff == actual - bom_item.quantity
        c == Classify(matched_items, matched_sub_ids, diff)
    IN  [compare_result |->
            [work_order |-> work_order, part_id |-> MainPart(bom_item),
             part_name |-> bom_item.name, bom_quantity |-> bom_item.quantity,
             actual_quantity |-> actual, difference |-> diff,
             status |-> c.status, box_sources |-> BoxesOf(items, matched_items),
             matched_substitutes |-> sub_list,
             remark |-> Join(c.remarks, <<";", " ">>)],
         matched_part_ids |-> MatchedListIds(bom_item, part_lookup),
         matched_items |-> matched_items]

\* bom_all without the substitute ids
BomAllMainOnly(bom) ==
    {CleanStored(bom[i].main_part_id) : i \in 1..Len(bom)} \ {<<>>}

\* compare_bom_and_list, lines 169-177: every id the BOM names
BomAll(bom) ==
    UNION {{MainPart(bom[i])}
           \cup {CleanStored(bom[i].substitute_ids[j]) :
                    j \in 1..Len(bom[i].substitute_ids)} : i \in 1..Len(bom)}
    \ {<<>>}

\* the unmatched ids in sorted order instead of insertion order
UnmatchedKeysSorted(items, bom_all_parts) ==
    SortedSeq({CleanStored(items[i].part_id) : i \in 1..Len(items)}
              \ ({<<>>} \cup bom_all_parts))

\* find_unmatched_list_items, lines 135-139: the dict of records by id, as
\* its keys in insertion order
UnmatchedKeys(items, bom_all_parts) ==
    LET idx == SelectSeq(Indices(Len(items)),
                   LAMBDA i : ListKey(items[i]) # <<>> /\ ListKey(items[i]) \notin bom_all_parts)
    IN  FirstSeen([k \in 1..Len(idx) |-> ListKey(items[idx[k]])])

UnmatchedItems(items, pid) ==
    SelectSeq(Indices(Len(items)), LAMBDA i : ListKey(items[i]) = pid)

\* find_unmatched_list_items, lines 141-151
find_unmatched_list_items(items, bom_all_parts, work_order) ==
    LET keys == UnmatchedKeys(items, bom_all_parts)
    IN  [k \in 1..Len(keys) |->
            LET its == UnmatchedItems(items, keys[k])
                total == SumQuantity(items, its)
            IN  [work_order |-> work_order, part_id |-> keys[k], part_name |-> <<>>,
                 bom_quantity |-> 0, actual_quantity |-> total, difference |-> total,
                 status |-> NG_NOT_IN_BOM, box_sources |-> BoxesOf(items, its),
                 matched_substitutes |-> <<>>, remark |-> TxtNotInBom]]

\* the records behind each reverse-pass row
UnmatchedProvenance(items, bom_all_parts) ==
    LET keys == UnmatchedKeys(items, bom_all_parts)
    IN  [k \in 1..Len(keys) |-> UnmatchedItems(items, keys[k])]

\* ------------------------------------------------------------------
\* utils.merge_box_numbers
\* ------------------------------------------------------------------
\* the sort key x alone
BoxLessLexical(a, b) == StrLess(a, b)

\* the sort key (len(x), x)
BoxLess(a, b) == Len(a) < Len(b) \/ (Len(a) = Len(b) /\ StrLess(a, b))

RECURSIVE SortedBoxes(_)
SortedBoxes(S) ==
    IF S = {} THEN <<>>
    ELSE LET m == CHOOSE x \in S : \A y \in S \ {x} : BoxLess(x, y)
         IN  <<m>> \o SortedBoxes(S \ {m})

merge_box_numbers(box_list) ==
    IF box_list = <<>> THEN <<"-">>
    ELSE LET unique_boxes == SortedBoxes(Range(box_list) \ {<<>>})
         IN  IF unique_boxes = <<>> THEN <<"-">>
             ELSE Join(unique_boxes, <<",", " ">>)

\* ------------------------------------------------------------------
\* compare_bom_and_list: statistics and display rows
\* ------------------------------------------------------------------
Count(q, P(_)) == Len(SelectSeq(q, P))

\* compare_bom_and_list, lines 187-204 (pass_rate kept as an exact fraction)
Stats(res, bom, list_label) ==
    LET total == Len(res)
        ok == Count(res, is_pass)
        ng == Count(res, is_ng)
    IN  [total_items |-> total,
         bom_items_count |-> Len(bom),
         ok_count |-> ok,
         ng_count |-> ng,
         pass_rate |-> IF total # 0 THEN [num |-> ok * 100, den |-> total]
                       ELSE [num |-> 0, den |-> 1],
         ok_main_only |-> Count(res, LAMBDA r : r.status = OK),
         ok_with_substitute |-> Count(res, LAMBDA r : r.status = OK_WITH_SUB),
         substitute_used_count |-> Count(res, LAMBDA r : r.status = OK_WITH_SUB),
         ng_qty_difference |-> Count(res, LAMBDA r : r.status = NG_QTY_DIFF),
         ng_missing |-> Count(res, LAMBDA r : r.status = NG_MISSING),
         ng_not_in_bom |-> Count(res, LAMBDA r : r.status = NG_NOT_IN_BOM),
         list_type |-> list_label]

\* x or '-'
OrDash(x) == IF x = <<>> THEN <<"-">> ELSE x

\* compare_bom_and_list, lines 206-211
Rows(res) ==
    [k \in 1..Len(res) |->
        [work_order |-> OrDash(res[k].work_order),
         part_id |-> res[k].part_id,
         part_name |-> OrDash(res[k].part_name),
         bom_quantity |-> format_number(res[k].bom_quantity),
         actual_quantity |-> format_number(res[k].actual_quantity),
         difference |-> format_number(res[k].difference),
         status |-> res[k].status,
         box_sources |-> merge_box_numbers(res[k].box_sources),
         remark |-> res[k].remark]]

\* ------------------------------------------------------------------
\* data_processor.validate_data
\* ------------------------------------------------------------------
TxtBomEmpty == <<"[BOM data is empty]">>
TxtListEmpty == <<"[data is empty]">>
TxtBomDup == <<"[BOM duplicate part ids]", ":", " ">>
TxtBomZero == <<"[BOM lines with quantity 0]", ":", " ">>
TxtListZero == <<"[lines with quantity 0]", ":", " ">>

\* pids, line 390
BomPids(bom) == [i \in 1..Len(bom) |-> MainPart(bom[i])]

\* the ids that dups holds, line 391
DupIds(bom) ==
    {p \in Range(BomPids(bom)) :
        Cardinality({i \in 1..Len(bom) : BomPids(bom)[i] = p}) > 1}

\* q[:n]
Take(q, n) == SubSeq(q, 1, IF Len(q) < n THEN Len(q) ELSE n)

\* every duplicate named, however many there are
validate_data_uncapped(bom, items, list_name, dups) ==
    LET z_bom == Cardinality({i \in 1..Len(bom) : bom[i].quantity = 0})
        z_list == Cardinality({i \in 1..Len(items) : items[i].quantity = 0})
    IN  (IF bom = <<>> THEN <<TxtBomEmpty>> ELSE <<>>)
        \o (IF items = <<>> THEN <<list_name \o TxtListEmpty>> ELSE <<>>)
        \o (IF dups # <<>>
            THEN <<TxtBomDup \o Join(dups, <<",", " ">>)>>
            ELSE <<>>)
        \o (IF z_bom # 0 THEN <<TxtBomZero \o NatToStr(z_bom)>> ELSE <<>>)
        \o (IF z_list # 0 THEN <<list_name \o TxtListZero \o NatToStr(z_list)>> ELSE <<>>)

\* validate_data; dups is the list of line 391 in the order the iteration
\* over set(pids) produced it
validate_data(bom, items, list_name, dups) ==
    LET z_bom == Cardinality({i \in 1..Len(bom) : bom[i].quantity = 0})
        z_list == Cardinality({i \in 1..Len(items) : items[i].quantity = 0})
    IN  (IF bom = <<>> THEN <<TxtBomEmpty>> ELSE <<>>)
        \o (IF items = <<>> THEN <<list_name \o TxtListEmpty>> ELSE <<>>)
        \o (IF dups # <<>>
            THEN <<TxtBomDup \o Join(Take(dups, 5), <<",", " ">>)
                   \o (IF Len(dups) > 5 THEN <<".", ".", ".">> ELSE <<>>)>>
            ELSE <<>>)
        \o (IF z_bom # 0 THEN <<TxtBomZero \o NatToStr(z_bom)>> ELSE <<>>)
        \o (IF z_list # 0 THEN <<list_name \o TxtListZero \o NatToStr(z_list)>> ELSE <<>>)

\* ------------------------------------------------------------------
\* State: one checklist reconciled against a BOM as main.py does it
\* (validate_data, then compare_bom_and_list), and the same inputs
\* reconciled a second time
\* ------------------------------------------------------------------
VARIABLES
    bom_items,      \* List[BOMItem], the parsed BOM
    list_items,     \* List[ListItem], the parsed checklist
    pc,             \* position in the run
    warnings,       \* what validate_data returned
    lookup,         \* compare_bom_and_list: lookup
    bom_all,        \* compare_bom_and_list: bom_all
    bom_results,    \* compare_bom_and_list: bom_results
    provenance,     \* per result, the checklist records summed into it
    all_res,        \* compare_bom_and_list: all_res
    stats,          \* compare_bom_and_list: stats
    rows,           \* compare_bom_and_list: rows of the DataFrame
    run,            \* 1 or 2
    first,          \* the output of run 1, once run 2 has started
    call,           \* a call of a utils function: its name and arguments
    ret,            \* what the call returned, or the exception it raised
    raw_data,       \* file_reader: the sheet as a list of rows
    config,         \* file_reader: header row, columns and parse mode
    row_idx,        \* file_reader: rows of raw_data[header + 1:] consumed
    current_box,    \* _parse_stream: current_box
    skipped,        \* file_reader: skipped
    diag,           \* file_reader: the ParseDiagnostics returned
    session_state,  \* main.py: st.session_state
    uploads,        \* main.py: the files in the two uploaders
    job,            \* main.py: the locals of the script run that compares
    fact_data,      \* main.py: fact_data of the run
    callers,        \* load_excel_secure: the locals of each call in progress
    excel_lock,     \* file_reader._excel_lock: the call holding it, 0 if free
    disk,           \* the calls whose temporary file is on disk
    apps,           \* the calls whose Excel application runs
    books           \* the calls whose workbook is open

\* the state of a comparison
engine == <<warnings, lookup, bom_all, bom_results, provenance, all_res, stats,
            rows, run, first>>

\* the state of a parse
parse == <<raw_data, config, row_idx, current_box, skipped, diag>>

\* the state of a call of a utils function
text == <<call, ret>>

\* the state of the page
app == <<session_state, uploads, job, fact_data>>

\* the state of the calls of load_excel_secure
load == <<callers, excel_lock, disk, apps, books>>

vars == <<bom_items, list_items, pc, engine, parse, text, app, load>>

\* ------------------------------------------------------------------
\* Inputs
\* ------------------------------------------------------------------
SeqsUpTo(S, n) == UNION {[1..k -> S] : k \in 0..n}

BOMItem(main, qty, subs) ==
    [main_part_id |-> main, quantity |-> qty, substitute_ids |-> subs,
     name |-> <<>>, row_index |-> 0]

ListItem(pid, qty, box) ==
    [part_id |-> pid, quantity |-> qty, box_number |-> box, row_index |-> 0]

Ten == 10 * Scale

\* general inputs: BOM lines of 10 (a line with two
\* substitutes, a line whose substitute list repeats an id, a line that
\* names its own main id as substitute), checklist lines of 5
BomItemsG ==
    {BOMItem(P1001, Ten, <<P3003, P2002>>),
     BOMItem(P1001, Ten, <<P2002, P2002>>)}
    \cup {BOMItem(m, Ten, <<P2002>>) : m \in BomMainIds \ {P1001}}
ListItemsG == {ListItem(p, 5 * Scale, <<>>) : p \in ListIds}

\* inputs around the tolerance: one BOM line of 10, quantities near 10
QtysT == {Ten - 10, Ten - 9, Ten, Ten + 9, Ten + 10}
BomsT == {<<BOMItem(P1001, Ten, s)>> : s \in {<<>>, <<P2002>>}}
ListItemsT == {ListItem(p, q, <<>>) : p \in {P1001, P2002}, q \in QtysT}

\* inputs with box labels: one BOM line of 1001 with substitute 2002,
\* checklist lines of 1001 in boxes 1, 2, 9, 10 and in no box, a line of
\* the substitute and a line of an id the BOM does not name
Box1 == <<"1", "hao", "xiang">>
Box2 == <<"2", "hao", "xiang">>
Box9 == <<"9", "hao", "xiang">>
Box10 == <<"1", "0", "hao", "xiang">>
BomsB == {<<BOMItem(P1001, Ten, <<P2002>>)>>}
ListItemsB ==
    {ListItem(P1001, 5 * Scale, b) : b \in {<<>>, Box1, Box2, Box9, Box10}}
    \cup {ListItem(P2002, 5 * Scale, Box9), ListItem(P3003, 5 * Scale, Box2)}

\* inputs with repeated BOM lines: the ids 71 ... 7n, each on two lines,
\* for n = 5 with an empty checklist, and for n = 6 with the first BOM line
\* and the checklist line of quantity 0
DupDigits == <<"1", "2", "3", "4", "5", "6">>
BomDup(n, qty) ==
    [i \in 1..(2 * n) |->
        BOMItem(<<"7", DupDigits[((i - 1) % n) + 1]>>, IF i = 1 THEN qty ELSE Ten, <<>>)]
InputsD == {<<BomDup(5, Ten), <<>>>>,
            <<BomDup(6, 0), <<ListItem(<<"7", "1">>, 0, <<>>)>>>>}

Inputs ==
    (SeqsUpTo(BomItemsG, MaxBom) \X SeqsUpTo(ListItemsG, MaxList))
    \cup (BomsT \X SeqsUpTo(ListItemsT, MaxList))
    \cup (BomsB \X SeqsUpTo(ListItemsB, MaxBoxList))
    \cup InputsD

ListName == <<"L">>

NoOutput == [set |-> FALSE]

\* no diagnostics yet
NoDiag == [set |-> FALSE]

\* no sheet is being parsed
ParseIdle ==
    /\ raw_data = <<>>
    /\ config = [mode |-> "none"]
    /\ row_idx = 0
    /\ current_box = <<>>
    /\ skipped = 0
    /\ diag = NoDiag

\* nothing stored by a run
NoResult == [set |-> FALSE]

\* main.py lines 69-76 (_DEFAULTS) and an empty cache of sheets
SessionDefaults ==
    [processed |-> FALSE, bom_items |-> NoResult, fact_lists_data |-> NoResult,
     bom_fp |-> "", fact_fp |-> [i \in 1..MaxFacts |-> ""]]

\* both uploaders empty; changes counts the changes of the uploaders
NoUploads == [bom |-> "", facts |-> <<>>, changes |-> 0]

\* no script run compares
NoJob == [run |-> 0, outcome |-> "none"]

\* the page is not open
AppIdle ==
    /\ session_state = SessionDefaults
    /\ uploads = NoUploads
    /\ job = NoJob
    /\ fact_data = <<>>
    /\ callers = <<>>
    /\ excel_lock = 0
    /\ disk = {}
    /\ apps = {}
    /\ books = {}

\* no utils function is being called
TextIdle ==
    /\ call = [fn |-> "none"]
    /\ ret = None

Init ==
    /\ \E in \in Inputs : bom_items = in[1] /\ list_items = in[2]
    /\ pc = "validate"
    /\ warnings = <<>>
    /\ lookup = <<>>
    /\ bom_all = {}
    /\ bom_results = <<>>
    /\ provenance = <<>>
    /\ all_res = <<>>
    /\ stats = [total_items |-> 0]
    /\ rows = <<>>
    /\ run = 1
    /\ first = NoOutput
    /\ ParseIdle
    /\ TextIdle
    /\ AppIdle

\* ------------------------------------------------------------------
\* Steps
\* ------------------------------------------------------------------
\* main.py line 199: validate_data(bom_items, items, fname)
ValidateData ==
    /\ pc = "validate"
    /\ \E dups \in ListOfSet(DupIds(bom_items)) :
          warnings' = validate_data(bom_items, list_items, ListName, dups)
    /\ pc' = "lookup"
    /\ UNCHANGED <<bom_items, list_items, lookup, bom_all, bom_results, provenance,
                   all_res, stats, rows, run, first, parse, text, app, load>>

\* compare_bom_and_list, lines 167-177
BuildLookup ==
    /\ pc = "lookup"
    /\ lookup' = build_part_lookup(list_items)
    /\ bom_all' = BomAll(bom_items)
    /\ pc' = "match"
    /\ UNCHANGED <<bom_items, list_items, warnings, bom_results, provenance,
                   all_res, stats, rows, run, first, parse, text, app, load>>

\* compare_bom_and_list, lines 180-182: one turn of the loop
MatchBomItem ==
    /\ pc = "match"
    /\ Len(bom_results) < Len(bom_items)
    /\ LET b == bom_items[Len(bom_results) + 1]
       IN  \E sub_list \in ListOfSet(MatchedSubIds(b, lookup)) :
              LET mr == match_bom_item(list_items, b, lookup, DefaultWorkOrder, sub_list)
              IN  /\ bom_results' = Append(bom_results, mr.compare_result)
                  /\ provenance' = Append(provenance, mr.matched_items)
    /\ UNCHANGED <<bom_items, list_items, pc, warnings, lookup, bom_all,
                   all_res, stats, rows, run, first, parse, text, app, load>>

\* compare_bom_and_list, lines 184-185
FindUnmatched ==
    /\ pc = "match"
    /\ Len(bom_results) = Len(bom_items)
    /\ all_res' = bom_results
                  \o find_unmatched_list_items(list_items, bom_all, DefaultWorkOrder)
    /\ provenance' = provenance \o UnmatchedProvenance(list_items, bom_all)
    /\ pc' = "stats"
    /\ UNCHANGED <<bom_items, list_items, warnings, lookup, bom_all, bom_results,
                   stats, rows, run, first, parse, text, app, load>>

\* compare_bom_and_list, lines 187-217
ComputeStats ==
    /\ pc = "stats"
    /\ stats' = Stats(all_res, bom_items, ListName)
    /\ rows' = Rows(all_res)
    /\ pc' = "done"
    /\ UNCHANGED <<bom_items, list_items, warnings, lookup, bom_all, bom_results,
                   provenance, all_res, run, first, parse, text, app, load>>

Output == [set |-> TRUE, warnings |-> warnings, all_res |-> all_res,
           stats |-> stats, rows |-> rows]

\* the same BOM and checklist are reconciled again
RunAgain ==
    /\ pc = "done"
    /\ run = 1
    /\ Len(bom_items) <= MaxBom
    /\ Len(list_items) <= MaxList
    /\ first' = Output
    /\ run' = 2
    /\ pc' = "validate"
    /\ warnings' = <<>>
    /\ lookup' = <<>>
    /\ bom_all' = {}
    /\ bom_results' = <<>>
    /\ provenance' = <<>>
    /\ all_res' = <<>>
    /\ stats' = [total_items |-> 0]
    /\ rows' = <<>>
    /\ UNCHANGED <<bom_items, list_items, parse, text, app, load>>

Next ==
    \/ ValidateData
    \/ BuildLookup
    \/ MatchBomItem
    \/ FindUnmatched
    \/ ComputeStats
    \/ RunAgain

Spec == Init /\ [][Next]_vars

\* ==================================================================
\* Calls of the utils functions: one call with arguments drawn from
\* bounded sets, and its return
\* ==================================================================
\* the comparison is not running
EngineIdle ==
    /\ warnings = <<>>
    /\ lookup = <<>>
    /\ bom_all = {}
    /\ bom_results = <<>>
    /\ provenance = <<>>
    /\ all_res = <<>>
    /\ stats = [total_items |-> 0]
    /\ rows = <<>>
    /\ run = 1
    /\ first = NoOutput

\* s1 + s2 + ...
Concat(parts) == Join(parts, <<>>)

\* the characters of the generated expressions
ExprAlphabet == {"1", "0", "e", "*", "/", "-"}

\* expressions of the quantity column
ExprExamples ==
    {<<"1", "0", "0", "*", "9">>,
     <<"1", "0", "0", "*", "9", ";", " ", "D", "R", "O", "P">>,
     <<"1", "e", "5">>, <<"i", "n", "f">>, <<"-", "i", "n", "f">>,
     <<"I", "n", "f", "i", "n", "i", "t", "y">>,
     <<"+", "n", "a", "n">>, <<"n", "a", "n">>, <<"1", "_", "0">>,
     <<"8", "/", "0">>, <<"7", "/", "/", "2">>, <<"2", "*", "*", "3">>,
     <<"(", "1", "+", "2", ")", "*", "3">>, <<"1", ".", "5", "+", "2">>,
     <<"'", "1", "2">>, <<" ", "1", "2", " ">>, <<"1", "2", "a">>,
     <<"1", "0", "*", "*", "4", "0", "0">>,
     <<"1", "0", ".", "0", "*", "*", "4", "0", "0">>,
     <<"1", "0", ".", "0", "*", "*", "3", "0", "0", "*",
       "1", "0", ".", "0", "*", "*", "3", "0", "0">>}

\* the texts and the other values of the quantity column
ExprTexts(max_len) == {Str(s) : s \in SeqsUpTo(ExprAlphabet, max_len) \cup ExprExamples}
ExprValues == {None, NaN, Float(0), Float(5 * Scale), Float(0 - Scale)}

SafeEvalCall(x) == [fn |-> "safe_eval_expression", expression |-> x]

\* the characters of the generated part ids
PartAlphabet == {"1", "0", ".", "'", " ", "ZWSP"}

\* part ids as the cells of a sheet hold them
PartExamples ==
    {<<"1", "2", "3">>, <<"'", "1", "2", "3">>, <<"1", "2", "'", "3">>,
     <<"BQ", "1", "2", "3">>, <<"1", "2", "3", ".", "0">>,
     <<"BOM", "1", "2", "3", "NBSP">>, <<" ", "1", "NUL", "2", "3", "TAB">>,
     <<"A", "-", "1", "2", "3">>}

PartTexts(max_len) == {Str(s) : s \in SeqsUpTo(PartAlphabet, max_len) \cup PartExamples}
PartValues == {None, NaN, Float(123 * Scale), Float(123 * Scale + Scale \div 2)}

CleanCall(x) == [fn |-> "clean_part_number", value |-> x]

\* the pieces the generated substitute texts are made of
SubSegments ==
    {<<"1", "2">>, <<"1", "2", "3">>, <<"4", "5", "6", "7">>, <<"/">>,
     <<"n", "a", "n">>}

\* texts of the substitute column
SubExamples ==
    {<<"1", "2", "/", "3", "4", "5", "6", "/", "1", "2", "3", "4", "5", "/",
       "3", "4", "5", "6">>,
     <<"-">>, <<" ">>, <<"N", "a", "N">>, <<"N", "o", "n", "e">>, <<"wu">>,
     <<"n", "u", "l", "l">>, <<" ", "1", "2", "3", "4", " ">>,
     <<"2", "0", "0", "2", "(", "A", ")", ",", "3", "0", "0", "3">>}

SubTexts(max_segs) ==
    {Str(Concat(q)) : q \in SeqsUpTo(SubSegments, max_segs)}
    \cup {Str(s) : s \in SubExamples}
SubValues == {None, NaN, Float(456 * Scale), Float(12 * Scale)}

SubstituteCall(x) == [fn |-> "extract_substitute_ids", substitute_text |-> x]

\* rows of the top of a sheet: two keywords, three keywords in one cell,
\* one keyword, a keyword twice, three keywords
HeaderRows ==
    {<<Str(<<"P", "N">>), Str(<<"Q", "t", "y">>)>>,
     <<Str(<<"p", "n", " ", "q", "t", "y", " ", "n", "a", "m", "e">>), None>>,
     <<Str(<<"P", "n">>), Str(<<"x">>)>>,
     <<Str(<<"q", "t", "y">>), Str(<<"p", "n">>), Str(<<"Q", "T", "Y">>)>>,
     <<Str(<<"n", "a", "m", "e">>), Str(<<"q", "t", "y">>), Str(<<"p", "n">>)>>}

HeaderKeywords ==
    {<<<<"p", "n">>, <<"q", "t", "y">>, <<"n", "a", "m", "e">>>>,
     <<<<"P", "N">>, <<"p", "n">>, <<"Q", "t", "y">>>>}

\* the numerals one to nine
ChineseDigits == <<"c1", "c2", "c3", "c4", "c5", "c6", "c7", "c8", "c9">>

\* the numeral a sheet writes for n, 1 <= n <= 9999
NumeralOf(n) ==
    LET th == n \div 1000
        h == (n \div 100) % 10
        t == (n \div 10) % 10
        u == n % 10
    IN  (IF th > 0 THEN <<ChineseDigits[th], "c1000">> ELSE <<>>)
        \o (IF h > 0 THEN <<ChineseDigits[h], "c100">>
            ELSE IF th > 0 /\ (t > 0 \/ u > 0) THEN <<"c0">>
            ELSE <<>>)
        \o (IF t > 0 THEN (IF n < 20 THEN <<"c10">> ELSE <<ChineseDigits[t], "c10">>)
            ELSE IF h > 0 /\ u > 0 THEN <<"c0">>
            ELSE <<>>)
        \o (IF u > 0 THEN <<ChineseDigits[u]>> ELSE <<>>)

\* box marker rows and other rows, in Arabic digits
BoxExamples ==
    {<<"di", "1", "xiang">>, <<"1", "2", "hao", "xiang">>,
     <<"di", " ", "7", " ", "hao", " ", "xiang">>,
     <<"B", "o", "x", " ", "3">>, <<"c", "a", "r", "t", "o", "n", "#", "1", "2">>,
     <<"B", "O", "X", " ", "3">>, <<"1", "0", "0", "1">>, <<"xiang">>, <<>>}

\* numerals of the thousands
ThousandsExamples == {2000, 1234}

ChineseCalls(max_n) ==
    {[fn |-> "chinese_to_arabic", chinese_str |-> NumeralOf(n)] :
        n \in (1..max_n) \cup ThousandsExamples}

BoxCalls(max_n) ==
    {[fn |-> "extract_box_number_from_text", text |-> s] :
        s \in {<<"di">> \o NumeralOf(n) \o <<"xiang">> : n \in 1..max_n}
               \cup BoxExamples}

HEADER_SCAN_ROWS == 20
MIN_HEADER_SCORE == 2

HeaderCalls(max_rows) ==
    {[fn |-> "smart_find_header_row", data |-> d, keywords |-> k,
      max_rows |-> m, min_score |-> n] :
        d \in SeqsUpTo(HeaderRows, max_rows), k \in HeaderKeywords,
        m \in {2, HEADER_SCAN_ROWS}, n \in {MIN_HEADER_SCORE, MIN_HEADER_SCORE + 1}}

\* cells of a row: absent, blank, "-", the null words, a value
EmptyRowCells ==
    {None, Str(<<>>), Str(<<" ">>), Str(<<"-">>), Str(<<" ", "N", "a", "N">>),
     Str(<<"N", "o", "n", "e">>), Str(<<"x">>)}
EmptyRowCalls(max_cells) ==
    {[fn |-> "is_empty_row", row |-> r] : r \in SeqsUpTo(EmptyRowCells, max_cells)}

\* rows with a float cell
EmptyRowValueCalls ==
    {[fn |-> "is_empty_row", row |-> r] :
        r \in {<<NaN>>, <<Float(0)>>, <<None, NaN>>, <<NaN, Float(Scale)>>}}

\* the calls, by the type of the argument
TextCalls(fn) ==
    CASE fn = "safe_eval_expression" -> {SafeEvalCall(x) : x \in ExprTexts(MaxExpr)}
      [] fn = "clean_part_number" -> {CleanCall(x) : x \in PartTexts(MaxExpr)}
      [] fn = "extract_substitute_ids" -> {SubstituteCall(x) : x \in SubTexts(MaxSegs)}
      [] fn = "smart_find_header_row" -> HeaderCalls(MaxGridRows)
      [] fn = "chinese_to_arabic" -> ChineseCalls(MaxNumeral)
      [] fn = "extract_box_number_from_text" -> BoxCalls(MaxNumeral)
      [] fn = "is_empty_row" -> EmptyRowCalls(MaxCells)

\* the utils functions that are called
Functions ==
    {"safe_eval_expression", "clean_part_number", "extract_substitute_ids",
     "smart_find_header_row", "chinese_to_arabic", "extract_box_number_from_text",
     "is_empty_row"}

ValueCalls ==
    {SafeEvalCall(x) : x \in ExprValues}
    \cup {CleanCall(x) : x \in PartValues}
    \cup {SubstituteCall(x) : x \in SubValues}
    \cup EmptyRowValueCalls

InitText ==
    /\ bom_items = <<>>
    /\ list_items = <<>>
    /\ EngineIdle
    /\ ParseIdle
    /\ AppIdle
    /\ pc = "call"
    /\ \/ \E fn \in Functions : call \in TextCalls(fn)
       \/ call \in ValueCalls
    /\ ret = None

\* safe_eval_expression(expression)
SafeEval ==
    /\ pc = "call"
    /\ call.fn = "safe_eval_expression"
    /\ ret' = safe_eval_expression(call.expression)
    /\ pc' = "returned"
    /\ UNCHANGED <<bom_items, list_items, engine, parse, call, app, load>>

\* clean_part_number(value)
CleanPartNumber ==
    /\ pc = "call"
    /\ call.fn = "clean_part_number"
    /\ ret' = Str(clean_part_number(call.value))
    /\ pc' = "returned"
    /\ UNCHANGED <<bom_items, list_items, engine, parse, call, app, load>>

\* extract_substitute_ids(substitute_text)
ExtractSubstituteIds ==
    /\ pc = "call"
    /\ call.fn = "extract_substitute_ids"
    /\ ret' = extract_substitute_ids(call.substitute_text)
    /\ pc' = "returned"
    /\ UNCHANGED <<bom_items, list_items, engine, parse, call, app, load>>

\* smart_find_header_row(data, keywords, max_rows, min_score)
SmartFindHeaderRow ==
    /\ pc = "call"
    /\ call.fn = "smart_find_header_row"
    /\ ret' = smart_find_header_row(call.data, call.keywords, call.max_rows,
                                    call.min_score)
    /\ pc' = "returned"
    /\ UNCHANGED <<bom_items, list_items, engine, parse, call, app, load>>

\* chinese_to_arabic(chinese_str)
ChineseToArabic ==
    /\ pc = "call"
    /\ call.fn = "chinese_to_arabic"
    /\ ret' = chinese_to_arabic(call.chinese_str)
    /\ pc' = "returned"
    /\ UNCHANGED <<bom_items, list_items, engine, parse, call, app, load>>

\* extract_box_number_from_text(text, BOX_MARKER_PATTERNS)
ExtractBoxNumber ==
    /\ pc = "call"
    /\ call.fn = "extract_box_number_from_text"
    /\ ret' = extract_box_number_from_text(call.text, BOX_MARKER_PATTERNS)
    /\ pc' = "returned"
    /\ UNCHANGED <<bom_items, list_items, engine, parse, call, app, load>>

\* a bool as a returned value
Bool(b) == [t |-> "bool", v |-> b]

\* is_empty_row(row)
IsEmptyRow ==
    /\ pc = "call"
    /\ call.fn = "is_empty_row"
    /\ ret' = Bool(is_empty_row(call.row))
    /\ pc' = "returned"
    /\ UNCHANGED <<bom_items, list_items, engine, parse, call, app, load>>

NextText ==
    \/ SafeEval
    \/ CleanPartNumber
    \/ ExtractSubstituteIds
    \/ SmartFindHeaderRow
    \/ ChineseToArabic
    \/ ExtractBoxNumber
    \/ IsEmptyRow

SpecText == InitText /\ [][NextText]_vars

\* ==================================================================
\* file_reader: parse_bom, _parse_standard, _parse_stream, one row of
\* the sheet per step
\* ==================================================================
\* a column the mapping leaves unset (None)
NoCol == 0 - 1

\* MappingConfig; columns and header_row count from 0
MappingConfig(mode, header_row, extra_col) ==
    [mode |-> mode, header_row |-> header_row, part_col |-> 0, qty_col |-> 1,
     substitute_col |-> IF mode = "bom" THEN extra_col ELSE NoCol,
     name_col |-> NoCol,
     box_col |-> IF mode = "standard" THEN extra_col ELSE NoCol]

\* raw_data[header_row_idx + 1:]
DataRows(data, cfg) == Drop(data, Min2(cfg.header_row + 1, Len(data)))

\* row[col] if col < len(row) else None
CellOrNone(row, col) == IF col < Len(row) THEN row[col + 1] ELSE None

\* max(config.part_col, config.qty_col)
MaxCol(cfg) == IF cfg.part_col > cfg.qty_col THEN cfg.part_col ELSE cfg.qty_col

\* qty <= 0
NonPositive(qty) ==
    CASE qty.t = "float" -> qty.v <= 0
      [] qty.t \in {"inf", "widefloat"} -> qty.neg
      [] OTHER -> FALSE

\* a quantity as the records hold it: the units of a fixed-point float,
\* or the value itself
Quantity(qty) == IF qty.t = "float" THEN qty.v ELSE qty

Skip == [kind |-> "skip"]
RaiseOf(exc) == [kind |-> "raise", exc |-> exc]
Item(item) == [kind |-> "item", item |-> item]

\* the checks of a row that parse_bom, _parse_standard and _parse_stream
\* share, up to the quantity: [kind, part_id, qty]
CheckQuantity(part_id, qty) ==
    IF qty.t = "raise" THEN RaiseOf(qty.exc)
    ELSE IF qty = None THEN Skip
    ELSE [kind |-> "ok", part_id |-> part_id, qty |-> qty]

CheckPart(row, cfg, part_id) ==
    IF part_id = <<>> THEN Skip
    ELSE CheckQuantity(part_id, safe_eval_expression(CellOrNone(row, cfg.qty_col)))

CheckRow(row, cfg) ==
    IF is_empty_row(row) THEN Skip
    ELSE IF Len(row) <= MaxCol(cfg) THEN Skip
    ELSE CheckPart(row, cfg, clean_part_number(CellOrNone(row, cfg.part_col)))

\* parse_bom, lines 183-214: one turn of the loop
BomRowChecked(row, cfg, row_index, c) ==
    IF c.kind # "ok" THEN c
    ELSE IF NonPositive(c.qty) THEN Skip
    ELSE Item([main_part_id |-> c.part_id,
               quantity |-> Quantity(c.qty),
               substitute_ids |->
                   IF cfg.substitute_col # NoCol /\ cfg.substitute_col < Len(row)
                   THEN extract_substitute_ids(row[cfg.substitute_col + 1])
                   ELSE <<>>,
               name |->
                   IF cfg.name_col # NoCol /\ cfg.name_col < Len(row)
                      /\ Truthy(row[cfg.name_col + 1])
                   THEN Strip(PyStr(row[cfg.name_col + 1]))
                   ELSE <<>>,
               row_index |-> row_index])

BomRow(row, cfg, row_index) == BomRowChecked(row, cfg, row_index, CheckRow(row, cfg))

\* _parse_standard, lines 269-294: one turn of the loop
StandardRowChecked(row, cfg, row_index, c) ==
    IF c.kind # "ok" THEN c
    ELSE Item([part_id |-> c.part_id,
               quantity |-> Quantity(c.qty),
               box_number |->
                   IF cfg.box_col # NoCol /\ cfg.box_col < Len(row)
                   THEN normalize_box_number(row[cfg.box_col + 1])
                   ELSE <<>>,
               row_index |-> row_index])

StandardRow(row, cfg, row_index) ==
    StandardRowChecked(row, cfg, row_index, CheckRow(row, cfg))

\* the turn that tags a record with no box at all
StreamRowCheckedNoBox(box, row_index, c) ==
    IF c.kind # "ok" THEN c
    ELSE Item([part_id |-> c.part_id, quantity |-> Quantity(c.qty),
               box_number |-> <<>>, row_index |-> row_index])

\* _parse_stream, lines 323-354: one turn of the loop; a marker row gives
\* [kind |-> "box", box]
StreamRowChecked(box, row_index, c) ==
    IF c.kind # "ok" THEN c
    ELSE Item([part_id |-> c.part_id, quantity |-> Quantity(c.qty),
               box_number |-> box, row_index |-> row_index])

StreamRowMatched(row, cfg, box, row_index, box_match) ==
    IF box_match # None /\ box_match.v # <<>> THEN [kind |-> "box", box |-> box_match.v]
    ELSE StreamRowChecked(box, row_index, CheckRow(row, cfg))

StreamRow(row, cfg, box, row_index) ==
    IF row = <<>> THEN Skip
    ELSE StreamRowMatched(row, cfg, box, row_index,
                          extract_box_number_from_text(RowText(row), BOX_MARKER_PATTERNS))

\* the third column of the sheets: substitutes or box
ExtraCol == 2

\* the header row of a sheet
HeaderRow == <<Str(<<"P", "N">>), Str(<<"Q", "t", "y">>), Str(<<"x">>)>>

\* part ids and quantities of the cells
T1001 == Str(<<"1", "0", "0", "1">>)
T2002 == Str(<<"2", "0", "0", "2">>)
TOverflow == Str(<<"1", "0", "*", "*", "4", "0", "0">>)

\* rows of a BOM sheet: part id, quantity, substitutes
BomRowPool ==
    <<<<T1001, Float(10 * Scale), Str(<<"2", "0", "0", "2", "/", "3", "0", "0", "3">>)>>,
      <<Str(<<"'", "1", "0", "0", "1">>), Str(<<"2", "*", "5">>),
        Str(<<"1", "0", "0", "1", "/", "2", "0", "0", "2", "/", "1", "2", "/",
              "2", "0", "0", "2">>)>>,
      <<T2002, Float(0), None>>,
      <<T2002, Float(0 - Scale), Str(<<"n", "a", "n">>)>>,
      <<T2002, TOverflow, None>>>>

\* rows of a checklist sheet: part id, quantity, box
StandardRowPool ==
    <<<<Float(1001 * Scale), Str(<<"2", "*", "5">>), Float(2 * Scale)>>,
      <<None, Str(<<" ">>), None>>,
      <<T1001>>,
      <<Str(<<"'">>), Float(5 * Scale), Str(<<"3">>)>>,
      <<T2002, Str(<<"x">>), Str(<<"1", "hao", "xiang">>)>>,
      <<T2002, Float(0)>>,
      <<T2002, TOverflow, None>>>>

\* rows of a checklist sheet with box marker rows
StreamRowPool ==
    <<<<Str(<<"di", "1", "xiang">>)>>,
      <<Str(<<"di", "2", "xiang">>)>>,
      <<T1001, Float(5 * Scale)>>,
      <<T1001, Float(3 * Scale)>>,
      <<T2002, Str(<<"x">>)>>,
      <<T2002, TOverflow>>>>

RowPool(mode) ==
    CASE mode = "bom" -> BomRowPool
      [] mode = "standard" -> StandardRowPool
      [] mode = "stream" -> StreamRowPool

\* the most data rows of a sheet
MaxDataRows(mode) == IF mode = "stream" THEN MaxStreamRows ELSE MaxRows

InitParse ==
    /\ bom_items = <<>>
    /\ list_items = <<>>
    /\ EngineIdle
    /\ TextIdle
    /\ AppIdle
    /\ \E mode \in {"bom", "standard", "stream"}, h \in {0, 1} :
          /\ config = MappingConfig(mode, h, ExtraCol)
          /\ \E k \in 0..MaxDataRows(mode) :
                \E f \in [1..k -> 1..Len(RowPool(mode))] :
                    raw_data = <<HeaderRow>> \o [i \in 1..k |-> RowPool(mode)[f[i]]]
    /\ row_idx = 0
    /\ current_box = <<>>
    /\ skipped = 0
    /\ diag = NoDiag
    /\ pc = "parse"

\* the 1-based number of the grid row the loop is at
RowNumber == config.header_row + 1 + row_idx + 1

\* the row the loop is at
CurrentRow == DataRows(raw_data, config)[row_idx + 1]

MoreRows(mode) ==
    /\ pc = "parse"
    /\ config.mode = mode
    /\ row_idx < Len(DataRows(raw_data, config))

\* what a turn of a loop does with the outcome of its row
Turn(out) ==
    /\ row_idx' = row_idx + 1
    /\ pc' = IF out.kind = "raise" THEN "raised" ELSE "parse"
    /\ skipped' = IF out.kind \in {"skip", "box"} THEN skipped + 1 ELSE skipped
    /\ current_box' = IF out.kind = "box" THEN out.box ELSE current_box
    /\ UNCHANGED <<raw_data, config, diag, engine, text, app, load>>

\* parse_bom: one turn of the loop of line 183
ParseBomRow ==
    /\ MoreRows("bom")
    /\ LET out == BomRow(CurrentRow, config, RowNumber)
       IN  /\ Turn(out)
           /\ bom_items' = IF out.kind = "item" THEN Append(bom_items, out.item)
                           ELSE bom_items
    /\ UNCHANGED list_items

\* _parse_standard: one turn of the loop of line 269
ParseStandardRow ==
    /\ MoreRows("standard")
    /\ LET out == StandardRow(CurrentRow, config, RowNumber)
       IN  /\ Turn(out)
           /\ list_items' = IF out.kind = "item" THEN Append(list_items, out.item)
                            ELSE list_items
    /\ UNCHANGED bom_items

\* _parse_stream: one turn of the loop of line 323
ParseStreamRow ==
    /\ MoreRows("stream")
    /\ LET out == StreamRow(CurrentRow, config, current_box, RowNumber)
       IN  /\ Turn(out)
           /\ list_items' = IF out.kind = "item" THEN Append(list_items, out.item)
                            ELSE list_items
    /\ UNCHANGED bom_items

\* ParseDiagnostics as parse_bom (lines 217-225), _parse_standard (296-300)
\* and _parse_stream (360-364) build it
ParseDiagnostics(mode, data, cfg, items, skipped_rows) ==
    [set |-> TRUE,
     header_row |-> cfg.header_row + 1,
     total_rows |-> IF mode = "stream" THEN Len(data) ELSE Len(DataRows(data, cfg)),
     parsed_items |-> Len(items),
     skipped_rows |-> skipped_rows]

\* the loop is over: the items and the diagnostics are returned
ParseReturn ==
    /\ pc = "parse"
    /\ row_idx = Len(DataRows(raw_data, config))
    /\ diag' = ParseDiagnostics(config.mode, raw_data, config,
                                 IF config.mode = "bom" THEN bom_items ELSE list_items,
                                 skipped)
    /\ pc' = "parsed"
    /\ UNCHANGED <<bom_items, list_items, engine, raw_data, config, row_idx,
                   current_box, skipped, text, app, load>>

NextParse ==
    \/ ParseBomRow
    \/ ParseStandardRow
    \/ ParseStreamRow
    \/ ParseReturn

SpecParse == InitParse /\ [][NextParse]_vars

\* ==================================================================
\* main.py: the page. Files are uploaded and removed, and a click on the
\* compare button parses the BOM, then parses, validates and reconciles
\* the checklists one after the other, and stores the results
\* ==================================================================
T3003 == Str(<<"3", "0", "0", "3">>)
T4004 == Str(<<"4", "0", "0", "4">>)

\* the files of the uploaders; "X" is a file Excel cannot open
BomFiles == {"B0", "B1", "X"}
ListFiles == {"L0", "L1", "L2", "L4"}

\* load_excel_secure returned a sheet that is not empty
Loads(file) == file # "X"

\* the sheet of a file: B0 and L0 hold a header only, B1 needs 10 of 1001
\* (or of 2002) and 5 of 3003, L4 has a quantity that overflows
Sheet(file) ==
    CASE file = "B1" -> <<HeaderRow, <<T1001, Float(10 * Scale), T2002>>,
                          <<T3003, Float(5 * Scale), None>>>>
      [] file = "L1" -> <<HeaderRow, <<T1001, Float(10 * Scale)>>, <<T3003, Float(4 * Scale)>>>>
      [] file = "L2" -> <<HeaderRow, <<T2002, Float(10 * Scale)>>, <<T4004, Float(Scale)>>>>
      [] file = "L4" -> <<HeaderRow, <<T1001, TOverflow, Float(5 * Scale)>>>>
      [] OTHER -> <<HeaderRow>>

\* ui_helper.ensure_file_loaded: the fingerprint cached under a key after
\* the call, given the cached one and the uploaded file ("" for none)
CachedFp(fp, file) ==
    IF file = "" THEN ""
    ELSE IF fp # file /\ Loads(file) THEN file
    ELSE fp

\* ensure_file_loaded, line 102: a new sheet was read and cached
NewlyLoaded(fp, file) == file # "" /\ fp # file /\ Loads(file)

\* main.py lines 123-132: ensure_file_loaded for the BOM and for each
\* checklist, under the keys bom, fact_0, fact_1, ...
EnsureAll(u, ss) ==
    [ss EXCEPT
        !.bom_fp = CachedFp(ss.bom_fp, u.bom),
        !.fact_fp = [i \in 1..MaxFacts |->
                        IF i <= Len(u.facts) THEN CachedFp(ss.fact_fp[i], u.facts[i])
                        ELSE ss.fact_fp[i]],
        !.processed = /\ ss.processed
                      /\ ~NewlyLoaded(ss.bom_fp, u.bom)
                      /\ \A i \in 1..Len(u.facts) : ~NewlyLoaded(ss.fact_fp[i], u.facts[i])]

\* bom_raw: the uploaded BOM if ensure_file_loaded returned its sheet
BomRaw(u, ss) == IF u.bom # "" /\ ss.bom_fp = u.bom THEN u.bom ELSE ""

\* fact_raws, lines 128-132: the checklists whose sheet was returned
FactRaws(u, ss) ==
    LET idx == SelectSeq(Indices(Len(u.facts)), LAMBDA i : ss.fact_fp[i] = u.facts[i])
    IN  [k \in 1..Len(idx) |-> u.facts[idx[k]]]

\* the keywords of ALL_BOM_KEYWORDS and ALL_LIST_KEYWORDS the sheets have
AnchorKeywords == <<<<"P", "N">>, <<"Q", "t", "y">>>>

\* render_bom_mapping / render_list_mapping, header row: the row of
\* smart_find_header_row, or row 0
AnchorRow(found) == IF found.found THEN found.row ELSE 0

NoMapping == [set |-> FALSE]

\* render_bom_mapping (lines 138-178) and render_list_mapping (238-273)
\* with the columns sel = <<part_col, qty_col>> chosen in the select boxes
RenderMapping(mode, data, header_row, sel) ==
    IF header_row >= Len(data) \/ data[header_row + 1] = <<>> THEN NoMapping
    ELSE [MappingConfig(mode, header_row, ExtraCol) EXCEPT
            !.part_col = sel[1], !.qty_col = sel[2]]

MappingOf(mode, file, sel) ==
    RenderMapping(mode, Sheet(file),
                  AnchorRow(smart_find_header_row(Sheet(file), AnchorKeywords,
                                                  HEADER_SCAN_ROWS, MIN_HEADER_SCORE)),
                  sel)

\* the column pairs of the select boxes: part column and quantity column
BomColumnChoices == {<<0, 1>>, <<0, 0>>}
ListColumnChoices == {<<0, 1>>, <<0, 0>>}

\* the locals of the script are gone when it runs again; run counts the
\* clicks
Forgotten(j) == [run |-> j.run, outcome |-> "none"]

\* parse_bom, _parse_standard and _parse_stream as functions: the loop
\* from data row k (0-based) on
RowOutcome(mode, row, cfg, box, row_index) ==
    CASE mode = "bom" -> BomRow(row, cfg, row_index)
      [] mode = "standard" -> StandardRow(row, cfg, row_index)
      [] mode = "stream" -> StreamRow(row, cfg, box, row_index)

RECURSIVE ParseRows(_, _, _, _, _)
ParseRowDone(mode, data, cfg, k, acc, out) ==
    IF out.kind = "raise" THEN out
    ELSE ParseRows(mode, data, cfg, k + 1,
                   [items |-> IF out.kind = "item" THEN Append(acc.items, out.item)
                              ELSE acc.items,
                    box |-> IF out.kind = "box" THEN out.box ELSE acc.box])

ParseRows(mode, data, cfg, k, acc) ==
    IF k >= Len(DataRows(data, cfg)) THEN [kind |-> "ok", items |-> acc.items]
    ELSE ParseRowDone(mode, data, cfg, k, acc,
                      RowOutcome(mode, DataRows(data, cfg)[k + 1], cfg, acc.box,
                                 cfg.header_row + 1 + k + 1))

\* parse_bom(raw_data, config) and parse_generic_list(raw_data, config):
\* [kind |-> "ok", items] or [kind |-> "raise", exc]
ParseSheet(data, cfg) == ParseRows(cfg.mode, data, cfg, 0, [items |-> <<>>, box |-> <<>>])

\* compare_bom_and_list, lines 180-185: all_res
AllRes(bom, items, part_lookup, work_order) ==
    [k \in 1..Len(bom) |->
        match_bom_item(items, bom[k], part_lookup, work_order,
                       SortedSeq(MatchedSubIds(bom[k], part_lookup))).compare_result]
    \o find_unmatched_list_items(items, BomAll(bom), work_order)

\* compare_bom_and_list: the DataFrame and the statistics, which hold no
\* matched_substitutes list
CompareOutput(all_results, bom, list_label) ==
    [result_df |-> Rows(all_results), stats |-> Stats(all_results, bom, list_label)]

compare_bom_and_list(bom, items, list_label, work_order) ==
    CompareOutput(AllRes(bom, items, build_part_lookup(items), work_order), bom, list_label)

\* main.py lines 201-209: the entry of fact_data
FactEntry(fname, items, out) ==
    [file_name |-> fname, items |-> items, result_df |-> out.result_df,
     stats |-> out.stats]

\* the loop body variant that reconciles the records of all checklists
\* parsed so far
RECURSIVE ItemsSoFar(_)
ItemsSoFar(data) ==
    IF data = <<>> THEN <<>> ELSE ItemsSoFar(SubSeq(data, 1, Len(data) - 1)) \o data[Len(data)].items

ReconcileCarried(bom, data, fname, items) ==
    Append(data, FactEntry(fname, items,
                           compare_bom_and_list(bom, ItemsSoFar(data) \o items, <<fname>>,
                                                DefaultWorkOrder)))

\* main.py lines 199-209: the checklist reconciled and appended to fact_data
Reconcile(bom, data, fname, items) ==
    Append(data, FactEntry(fname, items,
                           compare_bom_and_list(bom, items, <<fname>>, DefaultWorkOrder)))

\* the figure of the first checklist only
sub_n_first(data) ==
    IF data = <<>> THEN 0 ELSE data[1].stats.substitute_used_count

\* main.py line 289: sub_n
RECURSIVE sub_n(_)
sub_n(data) ==
    IF data = <<>> THEN 0
    ELSE data[1].stats.substitute_used_count + sub_n(Tail(data))

InitApp ==
    /\ bom_items = <<>>
    /\ list_items = <<>>
    /\ EngineIdle
    /\ ParseIdle
    /\ TextIdle
    /\ AppIdle
    /\ pc = "idle"

\* the changes of the uploaders and the clicks on the button so far
Interactions == uploads.changes + job.run

\* a file is put into the BOM uploader, or taken out of it, and the script
\* runs again
UploadBom ==
    /\ pc = "idle"
    /\ Interactions < MaxInteractions
    /\ \E f \in (BomFiles \cup {""}) \ {uploads.bom} :
          /\ uploads' = [uploads EXCEPT !.bom = f, !.changes = @ + 1]
          /\ session_state' = EnsureAll(uploads', session_state)
    /\ job' = Forgotten(job)
    /\ UNCHANGED <<bom_items, list_items, pc, engine, parse, text, load, fact_data>>

\* a file is added to the checklist uploader and the script runs again
UploadList ==
    /\ pc = "idle"
    /\ Interactions < MaxInteractions
    /\ Len(uploads.facts) < MaxFacts
    /\ \E f \in ListFiles \ Range(uploads.facts) :
          /\ uploads' = [uploads EXCEPT !.facts = Append(uploads.facts, f), !.changes = @ + 1]
          /\ session_state' = EnsureAll(uploads', session_state)
    /\ job' = Forgotten(job)
    /\ UNCHANGED <<bom_items, list_items, pc, engine, parse, text, load, fact_data>>

\* a file is taken out of the checklist uploader and the script runs again
RemoveList ==
    /\ pc = "idle"
    /\ Interactions < MaxInteractions
    /\ \E i \in 1..Len(uploads.facts) :
          /\ uploads' = [uploads EXCEPT
                            !.facts = SubSeq(uploads.facts, 1, i - 1)
                                      \o SubSeq(uploads.facts, i + 1, Len(uploads.facts)),
                            !.changes = @ + 1]
          /\ session_state' = EnsureAll(uploads', session_state)
    /\ job' = Forgotten(job)
    /\ UNCHANGED <<bom_items, list_items, pc, engine, parse, text, load, fact_data>>

\* main.py lines 170-182: the checks that stop the script
Stops(bom_raw, bom_cfg, fact_raws, fact_cfgs) ==
    \/ bom_raw = "" \/ bom_cfg = NoMapping
    \/ fact_raws = <<>>
    \/ Len(fact_cfgs) # Len(fact_raws)
    \/ bom_cfg.part_col = bom_cfg.qty_col

\* the locals of the script when the button is clicked; before is what
\* the session held at the click
JobOf(n, bom_raw, bom_cfg, fact_raws, all_cfgs, ss) ==
    [run |-> n,
     outcome |-> IF Stops(bom_raw, bom_cfg, fact_raws, SelectSeq(all_cfgs, LAMBDA c : c # NoMapping))
                 THEN "stopped" ELSE "running",
     bom_raw |-> bom_raw, bom_cfg |-> bom_cfg, fact_raws |-> fact_raws,
     fact_cfgs |-> SelectSeq(all_cfgs, LAMBDA c : c # NoMapping),
     before |-> [bom_items |-> ss.bom_items, fact_lists_data |-> ss.fact_lists_data],
     warnings |-> <<>>]

\* main.py lines 166-182: the compare button is clicked with the columns
\* bom_sel and fact_sel chosen in the select boxes
ClickCompare ==
    /\ pc = "idle"
    /\ Interactions < MaxInteractions
    /\ session_state' = EnsureAll(uploads, session_state)
    /\ \E bom_sel \in BomColumnChoices :
          \E fact_sel \in [1..Len(FactRaws(uploads, session_state')) -> ListColumnChoices] :
              job' = JobOf(job.run + 1, BomRaw(uploads, session_state'),
                           IF BomRaw(uploads, session_state') = "" THEN NoMapping
                           ELSE MappingOf("bom", BomRaw(uploads, session_state'), bom_sel),
                           FactRaws(uploads, session_state'),
                           [i \in 1..Len(FactRaws(uploads, session_state')) |->
                               MappingOf("standard", FactRaws(uploads, session_state')[i],
                                         fact_sel[i])],
                           session_state')
    /\ pc' = IF job'.outcome = "running" THEN "parse_bom" ELSE "idle"
    /\ fact_data' = <<>>
    /\ UNCHANGED <<bom_items, list_items, engine, parse, text, load, uploads>>

\* main.py lines 212-221: an exception ends the run
RunFails == job' = [job EXCEPT !.outcome = "failed"] /\ pc' = "idle"

\* main.py lines 190-191: parse_bom, and its result stored in the session
ParseBomSheet(out) ==
    IF out.kind = "raise"
    THEN RunFails /\ UNCHANGED <<bom_items, session_state>>
    ELSE /\ bom_items' = out.items
         /\ session_state' = [session_state EXCEPT
                                 !.bom_items = [set |-> TRUE, v |-> out.items, run |-> job.run]]
         /\ pc' = IF job.fact_cfgs = <<>> THEN "store" ELSE "list"
         /\ UNCHANGED job

ParseBom ==
    /\ pc = "parse_bom"
    /\ ParseBomSheet(ParseSheet(Sheet(job.bom_raw), job.bom_cfg))
    /\ UNCHANGED <<list_items, engine, parse, text, load, uploads, fact_data>>

\* main.py lines 194-210: one turn of the loop over the checklists
ReconcileParsed(fname, out) ==
    IF out.kind = "raise"
    THEN RunFails /\ UNCHANGED fact_data
    ELSE /\ \E dups \in ListOfSet(DupIds(bom_items)) :
               job' = [job EXCEPT !.warnings = validate_data(bom_items, out.items, <<fname>>, dups)]
         /\ fact_data' = Reconcile(bom_items, fact_data, fname, out.items)
         /\ pc' = IF Len(fact_data') = Len(job.fact_cfgs) THEN "store" ELSE "list"

ReconcileList ==
    /\ pc = "list"
    /\ ReconcileParsed(job.fact_raws[Len(fact_data) + 1],
                       ParseSheet(Sheet(job.fact_raws[Len(fact_data) + 1]),
                                  job.fact_cfgs[Len(fact_data) + 1]))
    /\ UNCHANGED <<bom_items, list_items, engine, parse, text, load, uploads, session_state>>

\* main.py lines 212-215: the results are stored and shown
StoreResults ==
    /\ pc = "store"
    /\ session_state' = [session_state EXCEPT
                            !.fact_lists_data = [set |-> TRUE, v |-> fact_data, run |-> job.run],
                            !.processed = TRUE]
    /\ job' = [job EXCEPT !.outcome = "completed", !.warnings = <<>>]
    /\ pc' = "idle"
    /\ UNCHANGED <<bom_items, list_items, engine, parse, text, load, uploads, fact_data>>

NextApp ==
    \/ UploadBom
    \/ UploadList
    \/ RemoveList
    \/ ClickCompare
    \/ ParseBom
    \/ ReconcileList
    \/ StoreResults

SpecApp == InitApp /\ [][NextApp]_vars

\* ==================================================================
\* file_reader.load_excel_secure called from several threads (one
\* Streamlit session each); close, quit and os.remove are taken to
\* succeed
\* ==================================================================
Callers == 1..MaxCallers

\* the locals of a call at line 112
NewCall == [pc |-> "create", tmp_path |-> FALSE, app |-> FALSE, workbook |-> FALSE,
            outcome |-> "none"]

InitLoad ==
    /\ bom_items = <<>>
    /\ list_items = <<>>
    /\ EngineIdle
    /\ ParseIdle
    /\ TextIdle
    /\ session_state = SessionDefaults
    /\ uploads = NoUploads
    /\ job = NoJob
    /\ fact_data = <<>>
    /\ pc = "load"
    /\ callers = [t \in Callers |-> NewCall]
    /\ excel_lock = 0
    /\ disk = {}
    /\ apps = {}
    /\ books = {}

At(t, where) == pc = "load" /\ callers[t].pc = where

\* the call t goes on at `to` with the locals changed as given
Goes(t, to, changed) ==
    callers' = [callers EXCEPT ![t] = [changed EXCEPT !.pc = to]]

Raised(c) == [c EXCEPT !.outcome = "raised"]

NotLoad == <<bom_items, list_items, pc, engine, parse, text, app>>

\* line 116: NamedTemporaryFile(delete=False) creates the file, or fails
CreateTemp(t) ==
    /\ At(t, "create")
    /\ \/ /\ disk' = disk \cup {t}
          /\ Goes(t, "write", callers[t])
       \/ /\ UNCHANGED disk
          /\ Goes(t, "close", Raised(callers[t]))
    /\ UNCHANGED <<NotLoad, excel_lock, apps, books>>

\* lines 117-122: the upload is written and tmp_path is assigned (the file
\* is closed and stays on disk), or the write fails, which leaves
\* tmp_path None
WriteUpload(t) ==
    /\ At(t, "write")
    /\ \/ Goes(t, "acquire", [callers[t] EXCEPT !.tmp_path = TRUE])
       \/ Goes(t, "close", Raised(callers[t]))
    /\ UNCHANGED <<NotLoad, excel_lock, disk, apps, books>>

\* line 126: with _excel_lock
Acquire(t) ==
    /\ At(t, "acquire")
    /\ excel_lock = 0
    /\ excel_lock' = t
    /\ Goes(t, "app", callers[t])
    /\ UNCHANGED <<NotLoad, disk, apps, books>>

\* lines 127-129: xw.App(...)
CreateApp(t) ==
    /\ At(t, "app")
    /\ \/ /\ apps' = apps \cup {t}
          /\ Goes(t, "open", [callers[t] EXCEPT !.app = TRUE])
       \/ /\ UNCHANGED apps
          /\ Goes(t, "release", Raised(callers[t]))
    /\ UNCHANGED <<NotLoad, excel_lock, disk, books>>

\* line 131: app.books.open(tmp_path)
OpenWorkbook(t) ==
    /\ At(t, "open")
    /\ \/ /\ books' = books \cup {t}
          /\ Goes(t, "read", [callers[t] EXCEPT !.workbook = TRUE])
       \/ /\ UNCHANGED books
          /\ Goes(t, "release", Raised(callers[t]))
    /\ UNCHANGED <<NotLoad, excel_lock, disk, apps>>

\* lines 132-146: the sheet and its used range are read; return [] for an
\* empty sheet, the data otherwise, or an exception
ReadRange(t) ==
    /\ At(t, "read")
    /\ \E o \in {"data", "empty", "raised"} :
          Goes(t, "release", [callers[t] EXCEPT !.outcome = o])
    /\ UNCHANGED <<NotLoad, excel_lock, disk, apps, books>>

\* the with block of line 126 is left, by return or by exception
Release(t) ==
    /\ At(t, "release")
    /\ excel_lock' = 0
    /\ Goes(t, "close", callers[t])
    /\ UNCHANGED <<NotLoad, disk, apps, books>>

\* finally, lines 149-153: workbook.close()
CloseWorkbook(t) ==
    /\ At(t, "close")
    /\ books' = IF callers[t].workbook THEN books \ {t} ELSE books
    /\ Goes(t, "quit", callers[t])
    /\ UNCHANGED <<NotLoad, excel_lock, disk, apps>>

\* finally, lines 154-158: app.quit()
QuitApp(t) ==
    /\ At(t, "quit")
    /\ apps' = IF callers[t].app THEN apps \ {t} ELSE apps
    /\ Goes(t, "remove", callers[t])
    /\ UNCHANGED <<NotLoad, excel_lock, disk, books>>

\* finally, lines 159-164: os.remove(tmp_path) if tmp_path is set, and the
\* call returns or raises
RemoveTemp(t) ==
    /\ At(t, "remove")
    /\ disk' = IF callers[t].tmp_path /\ t \in disk THEN disk \ {t} ELSE disk
    /\ Goes(t, "done", callers[t])
    /\ UNCHANGED <<NotLoad, excel_lock, apps, books>>

NextLoad ==
    \/ \E t \in Callers : CreateTemp(t)
    \/ \E t \in Callers : WriteUpload(t)
    \/ \E t \in Callers : Acquire(t)
    \/ \E t \in Callers : CreateApp(t)
    \/ \E t \in Callers : OpenWorkbook(t)
    \/ \E t \in Callers : ReadRange(t)
    \/ \E t \in Callers : Release(t)
    \/ \E t \in Callers : CloseWorkbook(t)
    \/ \E t \in Callers : QuitApp(t)
    \/ \E t \in Callers : RemoveTemp(t)

SpecLoad == InitLoad /\ [][NextLoad]_vars

\* ==================================================================
\* Properties
\* ==================================================================
\* the normalized form of a stored part id
NormId(s) == CleanStored(s)

\* the candidate id set of a BOM line: main id and substitute ids
CandidateIds(b) ==
    {NormId(b.main_part_id)}
    \cup ({NormId(b.substitute_ids[j]) : j \in 1..Len(b.substitute_ids)} \ {<<>>})

SubstituteIdSet(b) == CandidateIds(b) \ {NormId(b.main_part_id)}

\* the checklist records (positions) whose normalized id is in S
RecordsWithId(S) == {i \in 1..Len(list_items) : NormId(list_items[i].part_id) \in S}

RECURSIVE SumOver(_)
SumOver(I) ==
    IF I = {} THEN 0
    ELSE LET i == CHOOSE x \in I : TRUE
         IN  list_items[i].quantity + SumOver(I \ {i})

\* |d| < 0.001
WithinTolerance(d) == 1000 * Abs(d) < Scale

\* the part ids of the checklist: the non-empty normalized ids
ChecklistIds == {NormId(list_items[i].part_id) : i \in 1..Len(list_items)} \ {<<>>}

\* every id the BOM names, as main id or as substitute
BomIds == UNION {CandidateIds(bom_items[k]) : k \in 1..Len(bom_items)} \ {<<>>}

\* position of the first checklist record with id p
FirstAt(p) ==
    CHOOSE i \in 1..Len(list_items) :
        /\ NormId(list_items[i].part_id) = p
        /\ \A j \in 1..(i - 1) : NormId(list_items[j].part_id) # p

Compared == pc \in {"stats", "done"}

FiveStatuses == {OK, OK_WITH_SUB, NG_QTY_DIFF, NG_MISSING, NG_NOT_IN_BOM}

\* C1: every forward-pass row gets its status by the first rule that
\* applies: NG (missing) when no checklist record has a candidate id, else
\* OK (with substitute) when the actual is within 0.001 of the BOM quantity
\* and a substitute id matched, else OK when it is within 0.001, else
\* NG (quantity difference).
C1_StatusByFirstRule ==
    \A k \in 1..Len(bom_results) :
        LET b == bom_items[k]
            r == bom_results[k]
            hit == RecordsWithId(CandidateIds(b)) # {}
            subHit == RecordsWithId(SubstituteIdSet(b)) # {}
            near == WithinTolerance(r.actual_quantity - b.quantity)
        IN  r.status = IF ~hit THEN NG_MISSING
                       ELSE IF near /\ subHit THEN OK_WITH_SUB
                       ELSE IF near THEN OK
                       ELSE NG_QTY_DIFF

\* two BOM lines compared, one OK (with substitute), one NG (quantity difference)
C1_Witness ==
    /\ Len(bom_results) = 2
    /\ bom_results[1].status = OK_WITH_SUB
    /\ bom_results[2].status = NG_QTY_DIFF

IsSortedListing(q, S) ==
    /\ Range(q) = S
    /\ \A i, j \in 1..Len(q) : i < j => StrLess(q[i], q[j])

C3_MatchedSubstitutes ==
    \A k \in 1..Len(bom_results) :
        LET b == bom_items[k]
            r == bom_results[k]
            matched == {s \in SubstituteIdSet(b) : RecordsWithId({s}) # {}}
        IN  /\ Range(r.matched_substitutes) = matched
            /\ NormId(b.main_part_id) \notin Range(r.matched_substitutes)
            /\ (matched # {} /\ WithinTolerance(r.actual_quantity - b.quantity))
               => /\ r.status = OK_WITH_SUB
                  /\ \E q \in [1..Cardinality(matched) -> matched] :
                        /\ IsSortedListing(q, matched)
                        /\ r.remark = TxtSubUsed \o Join(q, <<",", " ">>)

\* a line is OK (with substitute) although its main id was received as well
C3_Witness ==
    \E k \in 1..Len(bom_results) :
        /\ bom_results[k].status = OK_WITH_SUB
        /\ RecordsWithId({NormId(bom_items[k].main_part_id)}) # {}
        /\ bom_results[k].matched_substitutes # <<>>

AbsentRows(p) ==
    {k \in 1..Len(all_res) : all_res[k].status = NG_NOT_IN_BOM /\ all_res[k].part_id = p}

C6_NothingDropped ==
    Compared =>
      \A i \in 1..Len(list_items) :
          \E k \in 1..Len(all_res) : i \in Range(provenance[k])

\* C7: no checklist record is in the actual quantity of two output rows
\* (records without a matching key are the case of C6).
C7_NoDoubleAccounting ==
    Compared =>
      \A i \in 1..Len(list_items) :
          NormId(list_items[i].part_id) # <<>>
            => Cardinality({k \in 1..Len(all_res) : i \in Range(provenance[k])}) = 1

C9_FiveStatuses ==
    /\ \A k \in 1..Len(bom_results) :
          /\ bom_results[k].status \in FiveStatuses
          /\ is_pass(bom_results[k]) # is_ng(bom_results[k])
    /\ \A k \in 1..Len(all_res) :
          /\ all_res[k].status \in FiveStatuses
          /\ is_pass(all_res[k]) # is_ng(all_res[k])
    /\ pc = "done" =>
          /\ stats.total_items = Len(all_res)
          /\ stats.ok_count + stats.ng_count = stats.total_items

\* a finished comparison with passes and NGs
C9_Witness ==
    /\ pc = "done"
    /\ stats.ok_count > 0
    /\ stats.ng_count > 0
    /\ \E k \in 1..Len(all_res) : all_res[k].status = NG_NOT_IN_BOM

\* C10: reconciling the same BOM and checklist twice gives the same
\* warnings, results (matched_substitutes included), statistics and rows.
C10_Deterministic ==
    (pc = "done" /\ run = 2) => Output = first

\* the value x is the text s
IsText(x, s) == x.t = "str" /\ x.v = s

\* the value x is the float of n units
IsFloat(x, n) == x.t = "float" /\ x.v = n

\* a call of fn has returned (or raised)
Returned(fn) == pc = "returned" /\ call.fn = fn

\* the characters an expression may be made of: digits, whitespace,
\* + - * / ( ) and '.'
ApprovedChars == DigitSet \cup {" ", "TAB", "NBSP", "+", "-", "*", "/", "(", ")", "."}

\* C11: safe_eval_expression returns None for every text that contains a
\* letter or any other character outside the allow-list (the quote-escape
\* character that is stripped from the front aside); no text with letters
\* ("1e5", "inf", "Infinity") yields a number.
C11_RejectsUnapproved ==
    (/\ Returned("safe_eval_expression")
     /\ call.expression.t = "str"
     /\ \E i \in 1..Len(call.expression.v) :
            call.expression.v[i] \notin ApprovedChars \cup {"'"})
    => ret = None

\* C12: safe_eval_expression never raises: for a number, None or a text of
\* allow-listed characters it returns a finite float or None; "8/0" gives
\* None and "100*9" gives 900.
C12_NeverRaises ==
    (/\ Returned("safe_eval_expression")
     /\ call.expression.t = "str" =>
           \A i \in 1..Len(call.expression.v) : call.expression.v[i] \in ApprovedChars)
    => /\ ret = None \/ ret.t \in {"float", "widefloat"}
       /\ IsText(call.expression, <<"8", "/", "0">>) => ret = None
       /\ IsText(call.expression, <<"1", "0", "0", "*", "9">>) => ret = Float(900 * Scale)

\* the characters clean_part_number removes as invisible
InvisibleChars == {"NUL", "TAB", "ZWSP", "BOM", "NBSP"}

\* the number of positions of s that hold c
CountChar(s, c) == Cardinality({i \in 1..Len(s) : s[i] = c})

\* s without its leading quote-escape characters
RECURSIVE DropLeadingQuotes(_)
DropLeadingQuotes(s) ==
    IF s # <<>> /\ Head(s) \in {"'", "BQ"} THEN DropLeadingQuotes(Tail(s)) ELSE s

\* C13: clean_part_number gives "123" for the float 123.0, for "123" and
\* for "'123"; only leading quote-escape characters are stripped, a quote
\* inside the id is kept; invisible characters are removed and the result
\* is trimmed.
C13_LeadingQuotesOnly ==
    Returned("clean_part_number") =>
      /\ (\/ IsFloat(call.value, 123 * Scale)
          \/ IsText(call.value, <<"1", "2", "3">>)
          \/ IsText(call.value, <<"'", "1", "2", "3">>))
         => ret = Str(<<"1", "2", "3">>)
      /\ call.value.t = "str" =>
            CountChar(ret.v, "'") = CountChar(DropLeadingQuotes(Strip(call.value.v)), "'")
      /\ \A i \in 1..Len(ret.v) : ret.v[i] \notin InvisibleChars
      /\ ret.v = Strip(ret.v)

\* the maximal runs of digits of s, as <<first, last>> positions
RunStarts(s) ==
    {i \in 1..Len(s) : s[i] \in DigitSet /\ (i = 1 \/ s[i - 1] \notin DigitSet)}

RunEnd(s, i) ==
    CHOOSE j \in i..Len(s) :
        /\ \A k \in i..j : s[k] \in DigitSet
        /\ j = Len(s) \/ s[j + 1] \notin DigitSet

MaximalRuns(s) == {<<i, RunEnd(s, i)>> : i \in RunStarts(s)}

\* the runs of three digits or more
LongRuns(s) == {r \in MaximalRuns(s) : r[2] - r[1] + 1 >= 3}

\* where the id first starts in s
FirstStart(s, id) ==
    LET at == {r[1] : r \in {x \in LongRuns(s) : SubSeq(s, x[1], x[2]) = id}}
    IN  CHOOSE i \in at : \A j \in at : i <= j

\* the text of the argument of extract_substitute_ids
SubstituteText == IF call.substitute_text.t = "none" THEN <<>> ELSE PyStr(call.substitute_text)

\* C14: extract_substitute_ids returns exactly the maximal runs of digits
\* of length >= 3 of the text, each once, in first-seen order; runs of one
\* or two digits are dropped; the empty text and the null tokens give the
\* empty list.
C14_LongDigitRuns ==
    Returned("extract_substitute_ids") =>
      LET s == SubstituteText
      IN  /\ Range(ret) = {SubSeq(s, r[1], r[2]) : r \in LongRuns(s)}
          /\ \A p, q \in 1..Len(ret) :
                p < q => /\ ret[p] # ret[q]
                         /\ FirstStart(s, ret[p]) < FirstStart(s, ret[q])
          /\ Lower(Strip(s)) \in {<<>>, <<"n", "a", "n">>, <<"n", "o", "n", "e">>, <<"-">>}
                => ret = <<>>

\* a text with a short run and a repeated id: two ids come back, in the
\* order of their first occurrence
C14_Witness ==
    /\ Returned("extract_substitute_ids")
    /\ Len(ret) = 2
    /\ StrLess(ret[2], ret[1])
    /\ Cardinality(LongRuns(SubstituteText)) = 3
    /\ Cardinality(MaximalRuns(SubstituteText)) = 4

\* the rows (1-based) smart_find_header_row is to look at: the first
\* min(len, max_rows) rows that have two non-empty cells or more
ScannedRows ==
    {i \in 1..Len(call.data) :
        /\ i <= call.max_rows
        /\ Cardinality({j \in 1..Len(call.data[i]) :
               call.data[i][j].t # "none" /\ Strip(PyStr(call.data[i][j])) # <<>>}) >= 2}

\* the number of distinct keywords, case aside, that the text of row i holds
KeywordScore(i) ==
    Cardinality({kw \in {Lower(call.keywords[k]) : k \in 1..Len(call.keywords)} :
                    Contains(Lower(RowText(call.data[i])), kw)})

\* the rows with the highest score
BestRows == {i \in ScannedRows : \A j \in ScannedRows : KeywordScore(j) <= KeywordScore(i)}

\* C16: smart_find_header_row looks at the first min(len, max_rows) rows,
\* ignores rows with fewer than two non-empty cells, scores a row by its
\* distinct keywords, and returns the earliest row with the highest score
\* and that score when the score reaches min_score, else (None, 0).
C16_EarliestBestRow ==
    Returned("smart_find_header_row") =>
      IF \E i \in BestRows : KeywordScore(i) >= call.min_score
      THEN LET first_best == CHOOSE i \in BestRows : \A j \in BestRows : i <= j
           IN  ret = [found |-> TRUE, row |-> first_best - 1,
                      score |-> KeywordScore(first_best)]
      ELSE ret = NotFound

\* two rows tie for the highest score and a row with a higher score lies
\* outside the scanned rows
C16_Witness ==
    /\ Returned("smart_find_header_row")
    /\ ret.found
    /\ Cardinality(BestRows) = 2
    /\ Len(call.data) > call.max_rows
    /\ calculate_header_score(call.data[Len(call.data)], call.keywords) > ret.score

\* the numerals: the digits one to nine, zero, and the magnitudes
UnitNumerals == {"c1", "c2", "c3", "c4", "c5", "c6", "c7", "c8", "c9"}
Numerals == UnitNumerals \cup {"c0", "c10", "c100", "c1000"}

\* the value of the digit that stands before position p (one when none does)
DigitBefore(s, p) ==
    IF p > 1 /\ s[p - 1] \in UnitNumerals THEN CHINESE_NUM_MAP[s[p - 1]] ELSE 1

\* the standard value of a well-formed numeral below ten thousand
RECURSIVE StandardValue(_)
StandardValue(s) ==
    LET at(m) == {p \in 1..Len(s) : s[p] = m}
        split(m, v) ==
            LET p == CHOOSE x \in at(m) : TRUE
            IN  DigitBefore(s, p) * v + StandardValue(SubSeq(s, p + 1, Len(s)))
    IN  IF s = <<>> THEN 0
        ELSE IF at("c1000") # {} THEN split("c1000", 1000)
        ELSE IF at("c100") # {} THEN split("c100", 100)
        ELSE IF at("c10") # {} THEN split("c10", 10)
        ELSE IF Head(s) = "c0" THEN StandardValue(Tail(s))
        ELSE CHINESE_NUM_MAP[Head(s)]

\* the text is di + numeral + xiang
IsChineseMarker(s) ==
    /\ Len(s) >= 3
    /\ s[1] = "di"
    /\ s[Len(s)] = "xiang"
    /\ \A i \in 2..(Len(s) - 1) : s[i] \in Numerals

\* C19: a box marker row written with a Chinese numeral of the digits one
\* to nine and the magnitudes ten, hundred and thousand gives the label of
\* the numeral's value, and chinese_to_arabic returns the standard value
\* of every well-formed numeral of that range.
C19_ChineseNumerals ==
    /\ Returned("chinese_to_arabic")
          => ret = IntValue(StandardValue(call.chinese_str))
    /\ (Returned("extract_box_number_from_text") /\ IsChineseMarker(call.text))
          => ret = Str(NatToStr(StandardValue(SubSeq(call.text, 2, Len(call.text) - 1)))
                       \o <<"hao", "xiang">>)

\* a quantity of a record is a number above zero
IsPositive(q) == IF q \in Int THEN q > 0 ELSE q.t \in {"inf", "widefloat"} /\ ~q.neg

\* the text of the cell of column col of grid row r (1-based), "" when
\* the row has no such cell or the cell is None
CellText(r, col) ==
    IF col = NoCol \/ col >= Len(raw_data[r]) THEN <<>>
    ELSE IF raw_data[r][col + 1].t = "none" THEN <<>>
    ELSE PyStr(raw_data[r][col + 1])

\* C15: every BOM record of parse_bom has a non-empty main part id, a
\* quantity above zero, and substitute ids without duplicates, in the
\* order of the sheet, that do not contain the main part id.
C15_BomRecords ==
    config.mode = "bom" =>
      \A k \in 1..Len(bom_items) :
          LET b == bom_items[k]
              s == CellText(b.row_index, config.substitute_col)
          IN  /\ b.main_part_id # <<>>
              /\ IsPositive(b.quantity)
              /\ \A p, q \in 1..Len(b.substitute_ids) :
                    p < q => /\ b.substitute_ids[p] # b.substitute_ids[q]
                             /\ FirstStart(s, b.substitute_ids[p])
                                  < FirstStart(s, b.substitute_ids[q])
              /\ b.main_part_id \notin Range(b.substitute_ids)

\* the records the parse returned: none when it raised
Emitted ==
    IF pc # "parsed" THEN <<>>
    ELSE IF config.mode = "bom" THEN bom_items
    ELSE list_items

\* the quantity cell of grid row r evaluates to a number
QuantityOf(r) == safe_eval_expression(CellOrNone(raw_data[r], config.qty_col))
QuantityEvaluates(r) == QuantityOf(r) # None /\ QuantityOf(r).t # "raise"

\* grid row r (1-based) is a row standard-mode parsing keeps
ValidRow(r) ==
    /\ r > config.header_row + 1
    /\ ~is_empty_row(raw_data[r])
    /\ Len(raw_data[r]) >= MaxCol(config)
    /\ clean_part_number(CellOrNone(raw_data[r], config.part_col)) # <<>>
    /\ QuantityEvaluates(r)
    /\ config.mode = "bom" => ~NonPositive(QuantityOf(r))

\* the id of a record, BOM or checklist
RecordId(x) == IF config.mode = "bom" THEN x.main_part_id ELSE x.part_id

\* C17: standard-mode parsing (parse_bom, _parse_standard) emits exactly
\* one record for each row after the header row that is not empty, is
\* long enough, has a non-empty cleaned part id and a quantity that
\* evaluates, and nothing for any other row; parse_bom drops quantities
\* <= 0, the checklist keeps quantity 0; a record carries the 1-based
\* number of its grid row.
C17_OneRecordPerValidRow ==
    (config.mode \in {"bom", "standard"} /\ pc \in {"parsed", "raised"}) =>
      \A r \in 1..Len(raw_data) :
          LET recs == {k \in 1..Len(Emitted) : Emitted[k].row_index = r}
          IN  /\ Cardinality(recs) = IF ValidRow(r) THEN 1 ELSE 0
              /\ \A k \in recs :
                    /\ RecordId(Emitted[k])
                         = clean_part_number(CellOrNone(raw_data[r], config.part_col))
                    /\ Emitted[k].quantity = Quantity(QuantityOf(r))

\* the box label grid row r (1-based) marks, None when it is no marker row
MarkerOf(r) ==
    IF raw_data[r] = <<>> THEN None
    ELSE extract_box_number_from_text(RowText(raw_data[r]), BOX_MARKER_PATTERNS)

IsMarkerRow(r) == MarkerOf(r) # None

\* the label of the most recent marker row after the header and before
\* grid row r, "" if there is none
RECURSIVE BoxBefore(_)
BoxBefore(r) ==
    IF r - 1 < config.header_row + 2 THEN <<>>
    ELSE IF IsMarkerRow(r - 1) THEN MarkerOf(r - 1).v
    ELSE BoxBefore(r - 1)

\* the grid rows the scan has passed
ScannedGridRows == (config.header_row + 2)..(config.header_row + 1 + row_idx)

\* what standard mode makes of grid row r
StandardOutcome(r) == StandardRow(raw_data[r], config, r)

\* the sheet of the example: a header, then box 1, 1001 x 5, box 2, 1001 x 3
ExampleSheet ==
    <<HeaderRow, <<Str(<<"di", "1", "xiang">>)>>, <<T1001, Float(5 * Scale)>>,
      <<Str(<<"di", "2", "xiang">>)>>, <<T1001, Float(3 * Scale)>>>>

\* C18: _parse_stream is one forward scan with current_box, empty at the
\* start: a marker row sets current_box to its label and is never a
\* record; every record carries the label of the most recent marker row
\* between the header and its row, "" if there is none; the other rows
\* are emitted or skipped by the checks of standard mode. The example
\* sheet gives two records of 1001, in boxes 1 and 2.
C18_StreamScan ==
    config.mode = "stream" =>
      /\ row_idx = 0 => current_box = <<>>
      /\ current_box = BoxBefore(config.header_row + 2 + row_idx)
      /\ \A k \in 1..Len(list_items) : list_items[k].row_index \in ScannedGridRows
      /\ \A r \in ScannedGridRows :
            LET recs == {k \in 1..Len(list_items) : list_items[k].row_index = r}
                o == StandardOutcome(r)
            IN  IF IsMarkerRow(r) THEN recs = {}
                ELSE IF o.kind # "item" THEN recs = {}
                ELSE /\ Cardinality(recs) = 1
                     /\ \A k \in recs :
                           /\ list_items[k].part_id = o.item.part_id
                           /\ list_items[k].quantity = o.item.quantity
                           /\ list_items[k].box_number = BoxBefore(r)
      /\ (pc = "parsed" /\ raw_data = ExampleSheet /\ config.header_row = 0) =>
            list_items =
              <<[part_id |-> P1001, quantity |-> 5 * Scale,
                 box_number |-> <<"1", "hao", "xiang">>, row_index |-> 3],
                [part_id |-> P1001, quantity |-> 3 * Scale,
                 box_number |-> <<"2", "hao", "xiang">>, row_index |-> 5]>>

\* the example sheet parsed: two records of 1001, in boxes 1 and 2
C18_Witness ==
    /\ config.mode = "stream"
    /\ pc = "parsed"
    /\ raw_data = ExampleSheet
    /\ config.header_row = 0
    /\ Len(list_items) = 2
    /\ list_items[1].box_number = <<"1", "hao", "xiang">>
    /\ list_items[2].box_number = <<"2", "hao", "xiang">>

\* the checklist records (positions) that contributed to output row k: for
\* a row of the forward pass the records of the line's candidate ids, for
\* a row of the reverse pass the records of the row's id
Contributors(k) ==
    IF k <= Len(bom_items) THEN RecordsWithId(CandidateIds(bom_items[k]))
    ELSE RecordsWithId({all_res[k].part_id})

\* the distinct non-empty box labels of the records I
LabelsOf(I) == {list_items[i].box_number : i \in I} \ {<<>>}

\* label a sorts before label b: shorter first, then lexical order
LabelBefore(a, b) == Len(a) < Len(b) \/ (Len(a) = Len(b) /\ StrLess(a, b))

\* the listings of the labels L: each label once, in sorted order
SortedListings(L) ==
    {s \in [1..Cardinality(L) -> L] :
        \A i, j \in 1..Cardinality(L) : i < j => LabelBefore(s[i], s[j])}

\* the box labels of the checklist, record by record
BoxColumn == [i \in 1..Len(list_items) |-> list_items[i].box_number]

Displayed == pc = "done"

\* C20: the box-source string of every output row is the comma-joined
\* listing of the distinct non-empty box labels of exactly the checklist
\* records that contributed to the row, sorted by length and then in
\* lexical order, or "-" when there is no such label; labels of boxes 2,
\* 1, 1 give "1, 2" and box 10 comes after box 9.
C20_BoxSources ==
    Displayed =>
      /\ Len(rows) = Len(all_res)
      /\ \A k \in 1..Len(rows) :
            LET L == LabelsOf(Contributors(k))
            IN  IF L = {} THEN rows[k].box_sources = <<"-">>
                ELSE \E s \in SortedListings(L) :
                        rows[k].box_sources = Join(s, <<",", " ">>)
      /\ (BoxColumn = <<Box2, Box1, Box1>> /\ Len(rows) = 1)
            => rows[1].box_sources = Box1 \o <<",", " ">> \o Box2
      /\ (BoxColumn = <<Box10, Box9>> /\ Len(rows) = 1)
            => rows[1].box_sources = Box9 \o <<",", " ">> \o Box10

\* three records of 1001 in boxes 10, 9 and 9 behind one row: "9, 10"
C20_Witness ==
    /\ Displayed
    /\ Len(rows) = 1
    /\ BoxColumn = <<Box10, Box9, Box9>>
    /\ rows[1].box_sources = Box9 \o <<",", " ">> \o Box10

\* the null-tokens of a cell: nan, none, "-" and the empty text
NullTokens == {<<"n", "a", "n">>, <<"n", "o", "n", "e">>, <<"-">>, <<>>}

\* a cell is absent, or its trimmed text is empty or a null-token in any case
IsNullCell(cell) == cell.t = "none" \/ Lower(Strip(PyStr(cell))) \in NullTokens

\* C24: is_empty_row(row) is true if and only if every cell is absent or,
\* stringified and trimmed, is empty or one of the null-tokens nan, none
\* and "-" in any case; a row whose cells are all "-" is an empty row.
C24_EmptyRow ==
    Returned("is_empty_row") =>
        (ret.v <=> \A i \in 1..Len(call.row) : IsNullCell(call.row[i]))

\* C30: clean_part_number applied to its own result gives the result
\* again, so a stored part id is the key the engine looks it up under and
\* a non-empty stored id never gets an empty key.
C30_CleanIdempotent ==
    Returned("clean_part_number") =>
        /\ clean_part_number(ret) = ret.v
        /\ ret.v # <<>> => CleanStored(ret.v) # <<>>

\* the data rows of the sheet: the rows strictly after the header row
DataRowCount ==
    IF Len(raw_data) > config.header_row + 1 THEN Len(raw_data) - (config.header_row + 1)
    ELSE 0

\* C28: the diagnostics of parse_bom, _parse_standard and _parse_stream
\* add up: total_rows = parsed_items + skipped_rows, total_rows is the
\* number of data rows (the rows strictly after the header row), and every
\* one of them is either a record or counted once as skipped.
C28_DiagnosticsAddUp ==
    (pc = "parsed" /\ config.mode \in {"bom", "standard", "stream"}) =>
        /\ diag.total_rows = diag.parsed_items + diag.skipped_rows
        /\ diag.total_rows = DataRowCount
        /\ diag.parsed_items = Len(Emitted)

\* a comparison has run to its end and its results are shown
AppShown == pc = "idle" /\ session_state.processed

\* the script that compares has run since the last change of the uploaders
Clicked == job.outcome # "none"

\* a mapping config of the run has its part column as quantity column
ColumnClash ==
    \/ (job.bom_cfg # NoMapping /\ job.bom_cfg.part_col = job.bom_cfg.qty_col)
    \/ \E i \in 1..Len(job.fact_cfgs) : job.fact_cfgs[i].part_col = job.fact_cfgs[i].qty_col

\* what the session holds of the results
Stored == [bom_items |-> session_state.bom_items,
           fact_lists_data |-> session_state.fact_lists_data]

\* C21: whenever a mapping config of a run, the BOM's or a checklist's,
\* has its part column equal to its quantity column, the run is stopped
\* before parse_bom or parse_generic_list starts, and produces no results.
C21_ConfigErrorBlocks ==
    (Clicked /\ ColumnClash) =>
        /\ job.outcome = "stopped"
        /\ pc = "idle"
        /\ Stored = job.before

\* the rows of a DataFrame with status st
RowsWithStatus(df, st) == Cardinality({k \in 1..Len(df) : df[k].status = st})

\* the statistics s fit the rows df
StatsFit(s, df) ==
    /\ s.total_items = Len(df)
    /\ s.ok_main_only = RowsWithStatus(df, OK)
    /\ s.ok_with_substitute = RowsWithStatus(df, OK_WITH_SUB)
    /\ s.ng_qty_difference = RowsWithStatus(df, NG_QTY_DIFF)
    /\ s.ng_missing = RowsWithStatus(df, NG_MISSING)
    /\ s.ng_not_in_bom = RowsWithStatus(df, NG_NOT_IN_BOM)
    /\ s.ok_main_only + s.ok_with_substitute = s.ok_count
    /\ s.ng_qty_difference + s.ng_missing + s.ng_not_in_bom = s.ng_count
    /\ s.ok_count + s.ng_count = s.total_items
    /\ s.substitute_used_count = s.ok_with_substitute
    /\ IF s.total_items = 0 THEN s.pass_rate.num = 0
       ELSE s.pass_rate.num * s.total_items = 100 * s.ok_count * s.pass_rate.den

\* the rows with status OK (with substitute) over all checklists
RECURSIVE SubstituteRows(_)
SubstituteRows(data) ==
    IF data = <<>> THEN 0
    ELSE RowsWithStatus(data[1].result_df, OK_WITH_SUB) + SubstituteRows(Tail(data))

\* C23: the statistics of every checklist fit its output rows: total_items
\* is the number of rows, the OK and NG counts are the sums of their parts
\* and add up to total_items, substitute_used_count = ok_with_substitute,
\* pass_rate = 100 * ok_count / total_items, and 0 when there is no row; the
\* headline substitute figure is the sum over the checklists of the run.
C23_StatsConsistent ==
    /\ \A k \in 1..Len(fact_data) : StatsFit(fact_data[k].stats, fact_data[k].result_df)
    /\ session_state.fact_lists_data.set =>
          /\ \A k \in 1..Len(session_state.fact_lists_data.v) :
                StatsFit(session_state.fact_lists_data.v[k].stats,
                         session_state.fact_lists_data.v[k].result_df)
          /\ sub_n(session_state.fact_lists_data.v)
                = SubstituteRows(session_state.fact_lists_data.v)

\* two checklists shown, one row of them OK with a substitute and one
\* checklist with a row that is NG
C23_Witness ==
    /\ pc = "idle"
    /\ session_state.processed
    /\ Len(session_state.fact_lists_data.v) = 2
    /\ sub_n(session_state.fact_lists_data.v) = 1
    /\ session_state.fact_lists_data.v[1].stats.ng_count > 0
    /\ session_state.fact_lists_data.v[2].stats.ok_with_substitute = 1

\* a BOM and a checklist without a row: no row, pass rate 0
C23_WitnessEmpty ==
    /\ session_state.processed
    /\ Len(session_state.fact_lists_data.v) = 1
    /\ session_state.fact_lists_data.v[1].stats.total_items = 0

\* the BOM records and the records of checklist i of the run, as the
\* parsers return them
ParsedBom == ParseSheet(Sheet(job.bom_raw), job.bom_cfg).items
ParsedList(i) == ParseSheet(Sheet(job.fact_raws[i]), job.fact_cfgs[i]).items

\* the checklists order[1], order[2], ... reconciled one after the other
RECURSIVE ReconciledInOrder(_, _)
ReconciledInOrder(order, data) ==
    IF order = <<>> THEN data
    ELSE ReconciledInOrder(Tail(order),
                           Reconcile(ParsedBom, data, job.fact_raws[Head(order)],
                                     ParsedList(Head(order))))

\* the orders in which the first n checklists can be reconciled
Orders(n) == {o \in [1..n -> 1..n] : \A i, j \in 1..n : i # j => o[i] # o[j]}

InLoop == Clicked /\ pc \in {"list", "store"}

\* C26: reconciling a checklist leaves the BOM records and the checklist
\* records as the parsers returned them, and the rows and statistics of a
\* checklist depend on the BOM and that checklist only: reconciled in any
\* order against the same BOM, each checklist gets the same result.
C26_Independent ==
    InLoop =>
        /\ bom_items = ParsedBom
        /\ session_state.bom_items.v = ParsedBom
        /\ \A k \in 1..Len(fact_data) : fact_data[k].items = ParsedList(k)
        /\ pc = "store" =>
              \A o \in Orders(Len(fact_data)) :
                  LET again == ReconciledInOrder(o, <<>>)
                  IN  \A k \in 1..Len(fact_data) : again[k] = fact_data[o[k]]

\* two checklists with rows reconciled against a BOM of two lines
C26_Witness ==
    /\ pc = "store"
    /\ Len(bom_items) = 2
    /\ Len(fact_data) = 2
    /\ fact_data[1].items # <<>>
    /\ fact_data[2].items # <<>>
    /\ fact_data[1].result_df # fact_data[2].result_df

\* C29: between the runs of the script, whenever processed is true the
\* stored BOM records and the stored fact_lists_data were produced by the
\* same completed run, and a run that failed has left the stored results
\* as they were.
C29_ResultsOfOneRun ==
    pc = "idle" =>
        /\ session_state.processed =>
              /\ session_state.bom_items.set
              /\ session_state.fact_lists_data.set
              /\ session_state.bom_items.run = session_state.fact_lists_data.run
        /\ job.outcome = "failed" => Stored = job.before

\* the cleaned main ids that more than one BOM line has
RepeatedIds ==
    LET cleaned == {<<i, CleanStored(bom_items[i].main_part_id)>> : i \in 1..Len(bom_items)}
    IN  {p[2] : p \in {p \in cleaned : \E q \in cleaned : q[1] # p[1] /\ q[2] = p[2]}}

ZeroLines(q) == Cardinality({i \in 1..Len(q) : q[i].quantity = 0})

\* the ids that a list "a, b, c" names
RECURSIVE NamesIn(_, _)
NamesIn(s, cur) ==
    IF s = <<>> THEN <<cur>>
    ELSE IF StartsWith(s, <<",", " ">>) THEN <<cur>> \o NamesIn(Drop(s, 2), <<>>)
    ELSE NamesIn(Tail(s), Append(cur, Head(s)))

Ellipsis == <<".", ".", ".">>

\* w is the warning about the repeated ids rep: it names min(5, n) of
\* the n ids, each once, and ends in an ellipsis iff n > 5
NamesRepeated(w, rep) ==
    /\ StartsWith(w, TxtBomDup)
    /\ LET body == Drop(w, Len(TxtBomDup))
           cut == EndsWith(body, Ellipsis)
           names == NamesIn(IF cut THEN SubSeq(body, 1, Len(body) - 3) ELSE body, <<>>)
           n == Cardinality(rep)
       IN  /\ Len(names) = (IF n > 5 THEN 5 ELSE n)
           /\ Range(names) \subseteq rep
           /\ Cardinality(Range(names)) = Len(names)
           /\ cut <=> n > 5

\* the warnings W are those of the conditions that hold
WarningsOf(W, rep, z_bom, z_list) ==
    /\ (TxtBomEmpty \in W) <=> bom_items = <<>>
    /\ (ListName \o TxtListEmpty \in W) <=> list_items = <<>>
    /\ (\E w \in W : NamesRepeated(w, rep)) <=> rep # {}
    /\ (TxtBomZero \o z_bom \in W) <=> ZeroLines(bom_items) > 0
    /\ (ListName \o TxtListZero \o z_list \in W) <=> ZeroLines(list_items) > 0
    /\ \A w \in W :
          \/ w = TxtBomEmpty
          \/ w = ListName \o TxtListEmpty
          \/ w = TxtBomZero \o z_bom
          \/ w = ListName \o TxtListZero \o z_list
          \/ NamesRepeated(w, rep)

\* the warnings are those of the conditions that hold, one each
WarningsFit ==
    /\ Cardinality(Range(warnings)) = Len(warnings)
    /\ IF warnings = <<>>
       THEN bom_items # <<>> /\ list_items # <<>> /\ RepeatedIds = {}
            /\ ZeroLines(bom_items) = 0 /\ ZeroLines(list_items) = 0
       ELSE WarningsOf(Range(warnings), RepeatedIds,
                       NatToStr(ZeroLines(bom_items)), NatToStr(ZeroLines(list_items)))

\* C22: validate_data returns one warning for each condition that holds
\* and no other (empty BOM, empty checklist, repeated cleaned BOM main ids
\* with at most 5 of them named and an ellipsis if there are more, BOM
\* lines of quantity 0, checklist lines of quantity 0); the warnings are
\* there before anything of the checklist is matched, and the
\* reconciliation goes on to its end whatever they are.
C22_WarningsAdvisory ==
    /\ pc = "validate" => warnings = <<>>
    /\ pc \in {"validate", "lookup"} => (lookup = <<>> /\ bom_results = <<>>
                                         /\ all_res = <<>>)
    /\ pc = "lookup" => WarningsFit
    /\ pc = "done" => (/\ WarningsFit
                       /\ Len(bom_results) = Len(bom_items)
                       /\ stats.total_items = Len(all_res)
                       /\ Len(rows) = Len(all_res))

\* a reconciliation that ended after three warnings, the one about the
\* repeated ids ending in an ellipsis
C22_Witness ==
    /\ pc = "done"
    /\ Len(warnings) = 3
    /\ \E i \in 1..3 : StartsWith(warnings[i], TxtBomDup) /\ EndsWith(warnings[i], Ellipsis)
    /\ stats.total_items > 0

\* C25: at most one Excel application opened by load_excel_secure runs at
\* any time, and an application runs and a workbook is open only while
\* the call that opened them holds _excel_lock.
C25_Serialized ==
    pc = "load" =>
        /\ Cardinality(apps) <= 1
        /\ \A t \in apps \cup books : excel_lock = t

\* C27: when a call of load_excel_secure has returned or raised, its
\* temporary file is not on disk, its workbook is closed, its application
\* has quit and it does not hold _excel_lock.
C27_CleansUp ==
    pc = "load" =>
        \A t \in Callers :
            callers[t].pc = "done" =>
                /\ t \notin disk
                /\ t \notin books
                /\ t \notin apps
                /\ excel_lock # t

====
